---- MODULE Spec2Model ----
(***************************************************************************)
(* A model of the judging core of udovin/Solve: the gap-tolerant event    *)
(* consumer (db/event_consumer.go), the cached store built on it          *)
(* (models base store) and the task queue with its invoker workers.       *)
(***************************************************************************)
EXTENDS Integers, Sequences, FiniteSets, TLC

(***************************************************************************)
(* Bounds of the model.                                                    *)
(***************************************************************************)
\* Event IDs the event table of the consumer harness can allocate.
MaxEventID == 4
\* Stand-in for eventGapSkipWindow (5000 in db/event_consumer.go:87), scaled
\* down so that the trimming branch of removeEmptyRanges is exercised.
GapWindow == 2
\* Goroutines that call ConsumeEvents on the one consumer.
NumCallers == 2

\* Stand-in for the store's eventGapSkipWindow (25000 in the base store),
\* the distance initEvents steps back from the last event ID.
InitWindow == 2

EventIDs == 1..MaxEventID
Callers == 1..NumCallers
\* Writer transactions that can be open at once on one table, the object
\* IDs the object table hands out, and the values a row can hold.
Writers == {"w1", "w2"}
ObjIDs == {1, 2}
Vals == {1, 2}
\* The values a created row starts with.
NewVals == {1}

VARIABLES
    evState,    \* event table of the consumer: the event IDs visible to readers
    ranges,     \* eventConsumer.ranges
    mutex,      \* eventConsumer.mutex: 0 when free, else the caller holding it
    cpc,        \* per caller: "idle" | "loop" (inside ConsumeEvents)
    cevents,    \* per caller: the events of its reader not yet returned by Next()
    cit,        \* per caller: the local variable it
    lastRes,    \* result of the most recently returned call: "none" | "nil" | "fn" | "invalid"
    startID,    \* the beginID the consumer was created with
    loaded,     \* history: the IDs the latest LoadEvents returned
    deliverers, \* history: the callers whose calls have delivered an event
    count,      \* history: per event ID, how often fn returned nil for it (2 = more than once)
    late,       \* history: IDs delivered after a higher ID had been delivered by an earlier call
    failed,     \* history: event IDs for which fn has returned an error
    lost,       \* history: IDs inside ranges dropped by the gap window
    stepInfo    \* history: what the latest consumer step did

cvars == <<evState, ranges, mutex, cpc, cevents, cit, lastRes, startID, loaded, deliverers,
           count, late, failed, lost, stepInfo>>

VARIABLES
    rows,       \* object table as committed: object id -> value, 0 when absent
    elog,       \* event table: event id -> [st, type, obj, val]
    wtx,        \* per writer: its open transaction, [open, type, obj, val, eid]
    mirror,     \* replica's in-memory map: object id -> value, 0 when absent
    mRanges,    \* ranges of the replica's consumer
    mInit,      \* InitTx has run on the replica
    mFresh,     \* history: SyncTx has run since the last commit
    mLost,      \* history: event IDs skipped by initEvents or trimmed while not visible
    mAtSync,    \* history: the mirror as InitTx/SyncTx last left it
    mLate,      \* history: SyncTx applied an event below one an earlier SyncTx applied
    mOrdered,   \* history: every SyncTx so far applied its events in increasing ID order
    mMax,       \* history: the highest event ID a SyncTx has applied, 0 when none
    noRows      \* history: an update or delete has returned sql.ErrNoRows

svars == <<rows, elog, wtx, mirror, mRanges, mInit, mFresh, mLost, mAtSync, mLate, mOrdered, mMax, noRows>>

\* A task as the queue sees it: the identifiers of the task table, the kinds,
\* the invoker workers and the processes they run in.
TaskIDs == {1, 2}
Invokers == {"i1", "i2"}
Procs == {"p1", "p2"}
\* Event IDs of the task event table and seconds of the clock.
MaxTaskEvents == 4
MaxTime == 6

VARIABLES
    trows,      \* task table as committed: task id -> [status, kind, expire], NoTask when absent
    tlog,       \* task event table: event id -> [st, type, obj, val]
    tlock,      \* the pop transactions holding LOCK TABLE on the task table
    now,        \* time.Now().Unix()
    procOf,     \* the process each invoker worker runs in
    pm,         \* per process: the TaskStore mirror [tasks, byStatus, ranges]
    wpc,        \* per worker: "idle" | "popping" | "judging" | "final" | "dead"
    wtask,      \* per worker: the task of runDaemonTick and its open pop transaction
    hb,         \* per worker: the heartbeat goroutine is running
    popCount,   \* history: per task, how many PopQueued calls returned it (2 = more than one)
    lastPop     \* history: the most recently returned PopQueued call

tvars == <<trows, tlog, tlock, now, procOf, pm, wpc, wtask, hb, popCount, lastPop>>

\* Judge tasks that may wait for one solution at a time.
MaxJudgeTasks == 2

VARIABLES
    solReport,  \* the report column of the solution row, NullReport when null
    pending,    \* judge tasks of the solution that are queued
    jpc,        \* the judging worker: "idle" | "prepared" | "compiled" | "testing" | "returned"
    report,     \* the report variable of the running judging
    jret,       \* what the judging returned: "none" | "nil" | "error"
    pkgSets,    \* the problem package: number of tests of each test set
    jpos,       \* the loop variables <<test set, test>> of the test loop
    compiled    \* history: "none" | "ok" | "failed", how the compiler ended

jvars == <<solReport, pending, jpc, report, jret, pkgSets, jpos, compiled>>

\* Session events the session table can hold.
MaxSessionEvents == 4

VARIABLES
    sessRows,   \* session table: session id -> account id, 0 when absent
    sessLog,    \* session event table in commit order: [type, id, account]
    sessSeen,   \* how many events of sessLog the SessionStore has consumed
    sessions,   \* SessionStore.sessions: session id -> account id, 0 when absent
    byAccount   \* SessionStore.byAccount: account id -> set of session ids

nvars == <<sessRows, sessLog, sessSeen, sessions, byAccount>>

\* Bytes the files of one comparison can have together.
MaxFileBytes == 3
\* Judge calls one worker makes, each with a scratch directory of its own.
MaxScratchDirs == 3
\* Clock readings and memory.current values of one run of the sandbox.
MaxClock == 3
MaxMemory == 2
\* Role IDs one call of getRecursiveRoles is given.
MaxGivenIDs == 2
\* Containers one worker creates for compilation.
MaxContainers == 3
\* Change rows the change table's sequence hands out.
MaxChanges == 3
\* Cache entries the standings manager creates, and seconds its clock runs.
MaxBuilds == 2
MaxStandingsClock == 2

VARIABLES
    outFile,    \* the bytes of the output file of a test
    ansFile,    \* the bytes of the answer file of the test
    cmpRes,     \* the latest result of compareFiles: "none" | "ok" | "differ" | "error"
    cmpEdited   \* history: whitespace was inserted or removed since that result

fvars == <<outFile, ansFile, cmpRes, cmpEdited>>

VARIABLES
    heap,       \* byte arrays: address -> content, 0 when not allocated
    compilers,  \* CompilerStore.compilers: compiler id -> address of its Config bytes
    settings,   \* SettingStore.settings: setting id -> Value
    loadedCfg,  \* history: the Config of each compiler as the store loaded it
    loadedVal,  \* history: the Value of each setting as the store loaded it
    given        \* objects returned to callers: [store, id, addr, val]

hvars == <<heap, compilers, settings, loadedCfg, loadedVal, given>>

VARIABLES
    dirs,       \* the scratch directories that exist on disk
    tempDir,    \* tempDir of the running judge call, 0 before makeTempDir
    deferred,   \* the deferred calls of the running judge call, last one on top
    spc,        \* position of the judge call: idle, mktemp, download, body, unwinding, returned
    sexit,      \* how the judge call left its body: none, nil, error, panic
    srev,       \* the revision of the handler: onJudgeSolution or Execute
    made,       \* number of scratch directories made so far
    exits       \* history: the ways calls that had made a directory have ended

dvars == <<dirs, tempDir, deferred, spc, sexit, srev, made, exits>>

VARIABLES
    child,        \* the sandboxed process: running, stopped, zombie, reaped
    cstatus,      \* how the child ended: [kind, code], kind none while it lives
    pendingKill,  \* a SIGKILL was sent to the living child and has not acted yet
    stopReported, \* waitpid has reported the current stop of the child
    mpc,          \* position of main: wait, time, sample, after, reported, failed
    result,       \* result of the last waitpid: 0, or 1 for the pid of the child
    wstatus,      \* status as the last waitpid left it: [kind, code]
    elapsed,      \* getTimeDiff(currentTime, startTime) of the last clock reading
    memory,       \* the variable memory of main
    currentMemory, \* the variable currentMemory of main
    samples,      \* history: the values of memory.current read in the loop
    iterKills,    \* history: the kills of the current iteration: [why, errno]
    sent,         \* history: the kills of the run, as a set
    reportFile    \* the report file: NoSandboxReport or [time, memory, exit_code]

bvars == <<child, cstatus, pendingKill, stopReported, mpc, result, wstatus, elapsed, memory, currentMemory, samples, iterKills, sent, reportFile>>

VARIABLES
    roleEdges,  \* the role edges: pairs <<role, child>>
    givenIDs,   \* the argument ids of getRecursiveRoles
    stack,      \* the variable stack
    roles,      \* the variable roles, the set returned
    rpc,        \* position of getRecursiveRoles: loop, returned
    expanded    \* history: how often each role was popped and its edges read

rvars == <<roleEdges, givenIDs, stack, roles, rpc, expanded>>

VARIABLES
    apc,        \* position of the caller: new, spawn, recv, stopInStart, started, failed, stopping, stopped
    closer,     \* the channel a.closer: none, open, closed
    waiter,     \* the counter of a.waiter
    stores,     \* the variable stores of Start
    received,   \* the variable i of the receive loop of Start
    startErr,   \* the variable err of Start: nil, error
    gpc,        \* position of each runManagerSync goroutine: none, add, init, send, select, done
    initErr,    \* the result of m.Init() of each goroutine: none, nil, error
    synced      \* history: the goroutine has called m.Sync()

avars == <<apc, closer, waiter, stores, received, startErr, gpc, initErr, synced>>

VARIABLES
    containers, \* the containers that exist
    kpc,        \* position of compileSolution: idle, created, copied, started, returned
    kdefer,     \* container.Destroy() is deferred in the running call
    hasSource,  \* config.Compile.Source != nil in the running call
    kmade,      \* number of containers created so far
    kexits      \* history: the ways calls that had created a container have ended

kvars == <<containers, kpc, kdefer, hasSource, kmade, kexits>>

VARIABLES
    ppc,          \* position of main after clone: ends, prepare, closeInit, waitReady, timing, exited
    epc,          \* position of entrypoint: ends, waitInit, setup, closeFinal, exec, target, exited
    initWriters,  \* the processes that hold the write end of initializePipe open
    finalWriters, \* the processes that hold the write end of finalizePipe open
    pdone,        \* the preparation steps main has completed, in order
    cdone         \* the set-up steps entrypoint has completed, in order

uvars == <<ppc, epc, initWriters, finalWriters, pdone, cdone>>

VARIABLES
    taskConfig, \* Task.Config of one task object: raw JSON, empty when nil
    taskState,  \* Task.State of the same object
    gotConfig,  \* what the last ScanConfig left in its target
    gotState,   \* what the last ScanState left in its target
    lastConfig, \* history: the value passed to the last SetConfig
    lastState,  \* history: the value passed to the last SetState
    tlast       \* history: the last method called on the object

ovars == <<taskConfig, taskState, gotConfig, gotState, lastConfig, lastState, tlast>>

VARIABLES
    changeTable,  \* the change_id values of the committed rows of the change table
    changeSeq,    \* the change_id values the table's sequence has handed out
    tableLock,    \* the transaction holding LOCK TABLE: 0 when free, else the caller
    txChange,     \* per caller, the change_id its open transaction created, 0 when none
    managerMutex, \* ChangeManager.mutex: "free" | "sync" | the caller holding it
    lastChangeID, \* ChangeManager.lastChangeID
    applied,      \* history: the change_id of every applyChange call, in call order
    syncPc,       \* position of Sync: idle, locked (mutex held, query sent), queried
    syncRows,     \* the rows the query of Sync returned
    syncArg,      \* the lastChangeID the query of Sync was given
    chPc          \* per caller, position of Change: idle, locked, synced, created, returned

gvars == <<changeTable, changeSeq, tableLock, txChange, managerMutex, lastChangeID, applied, syncPc, syncRows, syncArg, chPc>>

VARIABLES
    standingsCache, \* ContestStandingsManager.cache: per key the entry, 0 when absent
    cacheEntries,   \* the standingsCache objects made so far: Done, Time, Standings, Error
    cacheMutex,     \* ContestStandingsManager.mutex: 0 when free, else the caller
    bsPc,           \* per caller, position of BuildStandings
    bsKey,          \* per caller, the cache key of its call
    bsEntry,        \* per caller, the entry it builds or waits for, 0 when none
    bsResult,       \* per caller, what its last call returned
    bsHow,          \* history: per caller, the path its last call returned on
    bsNow           \* the clock, in seconds

wvars == <<standingsCache, cacheEntries, cacheMutex, bsPc, bsKey, bsEntry, bsResult, bsHow, bsNow>>

outsideConsumer == <<svars, tvars, jvars, nvars, fvars, hvars, dvars, bvars, rvars, avars, kvars, uvars, ovars, gvars, wvars>>
outsideStore == <<cvars, tvars, jvars, nvars, fvars, hvars, dvars, bvars, rvars, avars, kvars, uvars, ovars, gvars, wvars>>
outsideTasks == <<cvars, svars, jvars, nvars, fvars, hvars, dvars, bvars, rvars, avars, kvars, uvars, ovars, gvars, wvars>>
outsideJudge == <<cvars, svars, tvars, nvars, fvars, hvars, dvars, bvars, rvars, avars, kvars, uvars, ovars, gvars, wvars>>
outsideSession == <<cvars, svars, tvars, jvars, fvars, hvars, dvars, bvars, rvars, avars, kvars, uvars, ovars, gvars, wvars>>
outsideCompare == <<cvars, svars, tvars, jvars, nvars, hvars, dvars, bvars, rvars, avars, kvars, uvars, ovars, gvars, wvars>>
outsideLookup == <<cvars, svars, tvars, jvars, nvars, fvars, dvars, bvars, rvars, avars, kvars, uvars, ovars, gvars, wvars>>
outsideScratch == <<cvars, svars, tvars, jvars, nvars, fvars, hvars, bvars, rvars, avars, kvars, uvars, ovars, gvars, wvars>>
outsideSandbox == <<cvars, svars, tvars, jvars, nvars, fvars, hvars, dvars, rvars, avars, kvars, uvars, ovars, gvars, wvars>>
outsideRoles == <<cvars, svars, tvars, jvars, nvars, fvars, hvars, dvars, bvars, avars, kvars, uvars, ovars, gvars, wvars>>
outsideApp == <<cvars, svars, tvars, jvars, nvars, fvars, hvars, dvars, bvars, rvars, kvars, uvars, ovars, gvars, wvars>>
outsideCompile == <<cvars, svars, tvars, jvars, nvars, fvars, hvars, dvars, bvars, rvars, avars, uvars, ovars, gvars, wvars>>
outsideStartup == <<cvars, svars, tvars, jvars, nvars, fvars, hvars, dvars, bvars, rvars, avars, kvars, ovars, gvars, wvars>>
outsideObject == <<cvars, svars, tvars, jvars, nvars, fvars, hvars, dvars, bvars, rvars, avars, kvars, uvars, gvars, wvars>>
outsideManager == <<cvars, svars, tvars, jvars, nvars, fvars, hvars, dvars, bvars, rvars, avars, kvars, uvars, ovars, wvars>>
outsideStandings == <<cvars, svars, tvars, jvars, nvars, fvars, hvars, dvars, bvars, rvars, avars, kvars, uvars, ovars, gvars>>

(***************************************************************************)
(* EventRange and the pure helpers of the consumer.                        *)
(***************************************************************************)
\* EventRange{Begin, End}; End = 0 is the zero value NewEventConsumer leaves,
\* meaning an unbounded range.
EventRange(b, e) == [Begin |-> b, End |-> e]

contains(rng, id) == id >= rng.Begin /\ (rng.End = 0 \/ id < rng.End)

InRanges(rs, id) == \E k \in 1..Len(rs) : contains(rs[k], id)

\* NewEventConsumer: a single range starting at beginID.
NewEventConsumer(beginID) == <<EventRange(beginID, 0)>>

\* mockEventStore.LoadEvents / EventROStore.LoadEvents: the visible events
\* whose IDs fall in any of the ranges, ordered by event ID.
RECURSIVE SortedSeq(_)
SortedSeq(S) ==
    IF S = {} THEN <<>>
    ELSE LET m == CHOOSE x \in S : \A y \in S : x <= y
         IN  <<m>> \o SortedSeq(S \ {m})

\* A slip in which the reader returns the events in descending ID order.
LoadEventsDescending(visible, rs) ==
    LET q == SortedSeq({id \in visible : InRanges(rs, id)})
    IN  [k \in 1..Len(q) |-> q[Len(q) + 1 - k]]
LoadEvents(visible, rs) == SortedSeq({id \in visible : InRanges(rs, id)})

\* for it < len(c.ranges) && !c.ranges[it].contains(id) { it++ }   (it is 0-based)
RECURSIVE Locate(_, _, _)
Locate(rs, i, id) ==
    IF i < Len(rs) /\ ~contains(rs[i + 1], id)
    THEN Locate(rs, i + 1, id)
    ELSE i

\* A plausible slip: the range is split but the delivered ID stays in the
\* second half.
AdvanceKeepsID(rs, i, id) ==
    IF id = rs[i + 1].Begin
    THEN [rs EXCEPT ![i + 1].Begin = @]
    ELSE SubSeq(rs, 1, i)
         \o <<EventRange(rs[i + 1].Begin, id), EventRange(id, rs[i + 1].End)>>
         \o SubSeq(rs, i + 2, Len(rs))

\* A plausible slip: a consumer that only moves forward, jumping over the
\* gap instead of keeping it as a range of its own.
AdvanceSkipsGap(rs, i, id) == [rs EXCEPT ![i + 1].Begin = id + 1]

\* The body of the loop after fn returned nil: Begin++ or split of ranges[it].
Advance(rs, i, id) ==
    IF id = rs[i + 1].Begin
    THEN [rs EXCEPT ![i + 1].Begin = @ + 1]
    ELSE SubSeq(rs, 1, i)
         \o <<EventRange(rs[i + 1].Begin, id), EventRange(id + 1, rs[i + 1].End)>>
         \o SubSeq(rs, i + 2, Len(rs))

\* A plausible slip: the window is applied but empty ranges are kept.
keepEmptyRanges(rs) ==
    IF Len(rs) > GapWindow
    THEN SubSeq(rs, Len(rs) - GapWindow + 1, Len(rs))
    ELSE rs

\* A plausible slip: the window keeps the first ranges instead of the last.
removeEmptyRangesKeepsFirst(rs) ==
    LET kept == SelectSeq(rs, LAMBDA r : r.Begin # r.End)
    IN  IF Len(kept) > GapWindow THEN SubSeq(kept, 1, GapWindow) ELSE kept

NonEmptyRanges(rs) == SelectSeq(rs, LAMBDA r : r.Begin # r.End)

\* removeEmptyRanges: drop empty ranges, then keep the last GapWindow ranges.
removeEmptyRanges(rs) ==
    LET kept == NonEmptyRanges(rs)
    IN  IF Len(kept) > GapWindow
        THEN SubSeq(kept, Len(kept) - GapWindow + 1, Len(kept))
        ELSE kept

\* The IDs of the ranges removeEmptyRanges trims away.
Trimmed(rs) ==
    LET kept == NonEmptyRanges(rs)
    IN  UNION {kept[k].Begin..(kept[k].End - 1) : k \in 1..(Len(kept) - Len(removeEmptyRanges(rs)))}

BeginEventID == ranges[1].Begin

\* sync.Mutex of the consumer: Lock() proceeds only when nobody holds it.
LockFree(m) == m = 0

(***************************************************************************)
(* The event table as the consumer sees it (mockEventStore.events): the   *)
(* database allocates event IDs in increasing order when writers insert,  *)
(* but each ID becomes visible only when its writer commits, so IDs        *)
(* appear in any order and some never appear.                              *)
(***************************************************************************)
Committed == evState

\* A writer's transaction commits: its event becomes visible.
CommitEvent ==
    /\ \E id \in EventIDs \ evState : evState' = evState \cup {id}
    /\ UNCHANGED <<ranges, mutex, cpc, cevents, cit, lastRes, startID, loaded, deliverers,
                 count, late, failed, lost, stepInfo>>
    /\ UNCHANGED outsideConsumer

(***************************************************************************)
(* eventConsumer.ConsumeEvents, one goroutine c.                           *)
(***************************************************************************)
NoStep == [kind |-> "none", caller |-> 0, id |-> 0, before |-> <<>>]

SeqRange(q) == {q[k] : k \in 1..Len(q)}

\* c.mutex.Lock(); events := c.store.LoadEvents(tx, c.ranges); it := 0
ConsumeBegin(c) ==
    /\ cpc[c] = "idle"
    /\ LockFree(mutex)
    /\ mutex' = c
    /\ cpc' = [cpc EXCEPT ![c] = "loop"]
    /\ cevents' = [cevents EXCEPT ![c] = LoadEvents(Committed, ranges)]
    /\ loaded' = SeqRange(LoadEvents(Committed, ranges))
    /\ cit' = [cit EXCEPT ![c] = 0]
    /\ stepInfo' = [kind |-> "begin", caller |-> c, id |-> 0, before |-> ranges]
    /\ UNCHANGED <<evState, ranges, lastRes, startID, deliverers, count, late, failed, lost>>
    /\ UNCHANGED outsideConsumer

\* defer c.mutex.Unlock()
Unlock(c) == mutex' = IF mutex = c THEN 0 ELSE mutex

\* One iteration of the loop in which the range is found and fn(event)
\* returns nil: the range is advanced or split.
ConsumeDeliver(c) ==
    /\ cpc[c] = "loop"
    /\ cevents[c] # <<>>
    /\ LET id == Head(cevents[c])
           i  == Locate(ranges, cit[c], id)
       IN  /\ i < Len(ranges)
           /\ ranges' = Advance(ranges, i, id)
           /\ cit' = [cit EXCEPT ![c] = i]
           /\ cevents' = [cevents EXCEPT ![c] = Tail(@)]
           /\ count' = [count EXCEPT ![id] = IF @ < 2 THEN @ + 1 ELSE 2]
           /\ late' = IF \E a \in EventIDs \ loaded : a > id /\ count[a] > 0
                      THEN late \cup {id} ELSE late
           /\ stepInfo' = [kind |-> "deliver", caller |-> c, id |-> id, before |-> ranges]
    /\ deliverers' = deliverers \cup {c}
    /\ UNCHANGED <<evState, mutex, cpc, lastRes, startID, loaded, failed, lost>>
    /\ UNCHANGED outsideConsumer

\* A slip in which the range is advanced before fn is consulted.
ConsumeAbortAdvances(c) ==
    /\ cpc[c] = "loop"
    /\ cevents[c] # <<>>
    /\ LET id == Head(cevents[c])
           i  == Locate(ranges, cit[c], id)
       IN  IF i = Len(ranges)
           THEN /\ lastRes' = "invalid"
                /\ stepInfo' = [kind |-> "invalid", caller |-> c, id |-> id, before |-> ranges]
                /\ UNCHANGED <<failed, ranges>>
           ELSE /\ lastRes' = "fn"
                /\ failed' = failed \cup {id}
                /\ ranges' = Advance(ranges, i, id)
                /\ stepInfo' = [kind |-> "fnerror", caller |-> c, id |-> id, before |-> ranges]
    /\ cpc' = [cpc EXCEPT ![c] = "idle"]
    /\ cevents' = [cevents EXCEPT ![c] = <<>>]
    /\ cit' = [cit EXCEPT ![c] = 0]
    /\ Unlock(c)
    /\ UNCHANGED <<evState, startID, loaded, deliverers, count, late, lost>>
    /\ UNCHANGED outsideConsumer

\* One iteration of the loop that returns an error: no range contains the
\* event ("invalid event ID: case 1", fn is not called), or fn(event) returns
\* an error. Either way the function returns at once; the deferred Unlock runs.
ConsumeAbort(c) ==
    /\ cpc[c] = "loop"
    /\ cevents[c] # <<>>
    /\ LET id == Head(cevents[c])
           i  == Locate(ranges, cit[c], id)
       IN  IF i = Len(ranges)
           THEN /\ lastRes' = "invalid"
                /\ stepInfo' = [kind |-> "invalid", caller |-> c, id |-> id, before |-> ranges]
                /\ UNCHANGED failed
           ELSE /\ lastRes' = "fn"
                /\ failed' = failed \cup {id}
                /\ stepInfo' = [kind |-> "fnerror", caller |-> c, id |-> id, before |-> ranges]
    /\ cpc' = [cpc EXCEPT ![c] = "idle"]
    /\ cevents' = [cevents EXCEPT ![c] = <<>>]
    /\ cit' = [cit EXCEPT ![c] = 0]
    /\ Unlock(c)
    /\ UNCHANGED <<evState, ranges, startID, loaded, deliverers, count, late, lost>>
    /\ UNCHANGED outsideConsumer

\* events.Next() returned false: c.removeEmptyRanges(); return events.Err()
ConsumeEnd(c) ==
    /\ cpc[c] = "loop"
    /\ cevents[c] = <<>>
    /\ ranges' = removeEmptyRanges(ranges)
    /\ lost' = lost \cup Trimmed(ranges)
    /\ cpc' = [cpc EXCEPT ![c] = "idle"]
    /\ cit' = [cit EXCEPT ![c] = 0]
    /\ lastRes' = "nil"
    /\ stepInfo' = [kind |-> "end", caller |-> c, id |-> 0, before |-> ranges]
    /\ Unlock(c)
    /\ UNCHANGED <<evState, cevents, startID, loaded, deliverers, count, late, failed>>
    /\ UNCHANGED outsideConsumer

\* The consumer is created by NewEventConsumer(store, beginID) over an empty
\* event table.
ConsumerInitAt(b) ==
    /\ evState = {}
    /\ startID = b
    /\ ranges = NewEventConsumer(startID)
    /\ mutex = 0
    /\ cpc = [c \in Callers |-> "idle"]
    /\ cevents = [c \in Callers |-> <<>>]
    /\ cit = [c \in Callers |-> 0]
    /\ lastRes = "none"
    /\ loaded = {}
    /\ deliverers = {}
    /\ count = [id \in EventIDs |-> 0]
    /\ late = {}
    /\ failed = {}
    /\ lost = {}
    /\ stepInfo = NoStep

(***************************************************************************)
(* The object table with its event table, and writer transactions         *)
(* (baseStore.createObjectEventTx).                                        *)
(***************************************************************************)
CreateEvent == 1
DeleteEvent == 2
UpdateEvent == 3

NoEvent == [st |-> "free", type |-> 0, obj |-> 0, val |-> 0]
NoTx == [open |-> FALSE, type |-> 0, obj |-> 0, val |-> 0, eid |-> 0]

Visible(log) == {e \in DOMAIN log : log[e].st = "committed"}

\* The event ID the database hands to the next inserted event row.
NextEventID(log) ==
    IF \A e \in DOMAIN log : log[e].st # "free" THEN 0
    ELSE CHOOSE e \in DOMAIN log : log[e].st = "free" /\ \A j \in 1..(e - 1) : log[j].st # "free"

\* The object ID the database hands to the next created row: IDs are
\* never reused, also not those of rolled back or deleted rows.
NextObjectID ==
    LET used == {elog[e].obj : e \in {x \in EventIDs : elog[x].type = CreateEvent}}
    IN  IF used = ObjIDs THEN 0 ELSE CHOOSE o \in ObjIDs \ used : \A u \in used : u < o

\* A row another open transaction has written is locked until it ends.
RowLocked(w, o) == \E v \in Writers \ {w} : wtx[v].open /\ wtx[v].obj = o

\* createObjectEventTx, CreateEvent: CreateObject then CreateEvent, both
\* inside the caller's transaction.
WriterCreate(w) ==
    /\ ~wtx[w].open
    /\ NextEventID(elog) # 0
    /\ NextObjectID # 0
    /\ \E v \in NewVals :
         LET e == NextEventID(elog)
             o == NextObjectID
         IN  /\ elog' = [elog EXCEPT ![e] = [st |-> "pending", type |-> CreateEvent, obj |-> o, val |-> v]]
             /\ wtx' = [wtx EXCEPT ![w] = [open |-> TRUE, type |-> CreateEvent, obj |-> o, val |-> v, eid |-> e]]
    /\ UNCHANGED <<rows, mirror, mRanges, mInit, mFresh, mLost, mAtSync, mLate, mOrdered, mMax, noRows>>
    /\ UNCHANGED outsideStore

\* createObjectEventTx, UpdateEvent: UpdateObject matched a row, then CreateEvent.
WriterUpdate(w) ==
    /\ ~wtx[w].open
    /\ NextEventID(elog) # 0
    /\ \E o \in ObjIDs, v \in Vals :
         LET e == NextEventID(elog)
         IN  /\ rows[o] # 0
             /\ ~RowLocked(w, o)
             /\ elog' = [elog EXCEPT ![e] = [st |-> "pending", type |-> UpdateEvent, obj |-> o, val |-> v]]
             /\ wtx' = [wtx EXCEPT ![w] = [open |-> TRUE, type |-> UpdateEvent, obj |-> o, val |-> v, eid |-> e]]
    /\ UNCHANGED <<rows, mirror, mRanges, mInit, mFresh, mLost, mAtSync, mLate, mOrdered, mMax, noRows>>
    /\ UNCHANGED outsideStore

\* createObjectEventTx, DeleteEvent: DeleteObject matched a row, then
\* CreateEvent; the event carries only the object's ID.
WriterDelete(w) ==
    /\ ~wtx[w].open
    /\ NextEventID(elog) # 0
    /\ \E o \in ObjIDs :
         LET e == NextEventID(elog)
         IN  /\ rows[o] # 0
             /\ ~RowLocked(w, o)
             /\ elog' = [elog EXCEPT ![e] = [st |-> "pending", type |-> DeleteEvent, obj |-> o, val |-> 0]]
             /\ wtx' = [wtx EXCEPT ![w] = [open |-> TRUE, type |-> DeleteEvent, obj |-> o, val |-> 0, eid |-> e]]
    /\ UNCHANGED <<rows, mirror, mRanges, mInit, mFresh, mLost, mAtSync, mLate, mOrdered, mMax, noRows>>
    /\ UNCHANGED outsideStore

\* A slip in which the event is appended although the object operation
\* matched no row.
WriterNoRowsAppends(w) ==
    /\ ~wtx[w].open
    /\ NextEventID(elog) # 0
    /\ \E o \in ObjIDs, t \in {UpdateEvent, DeleteEvent} :
         /\ rows[o] = 0
         /\ ~RowLocked(w, o)
         /\ elog' = [elog EXCEPT ![NextEventID(elog)] =
                        [st |-> "committed", type |-> t, obj |-> o, val |-> 0]]
    /\ noRows' = TRUE
    /\ UNCHANGED <<rows, wtx, mirror, mRanges, mInit, mFresh, mLost, mAtSync, mLate, mOrdered, mMax>>
    /\ UNCHANGED outsideStore

\* createObjectEventTx, UpdateEvent or DeleteEvent, when the object operation
\* matches no row: it returns sql.ErrNoRows before CreateEvent and the
\* transaction of the call ends without a change.
WriterNoRows(w) ==
    /\ ~wtx[w].open
    /\ \E o \in ObjIDs : rows[o] = 0 /\ ~RowLocked(w, o)
    /\ noRows' = TRUE
    /\ UNCHANGED <<rows, elog, wtx, mirror, mRanges, mInit, mFresh, mLost, mAtSync, mLate, mOrdered, mMax>>
    /\ UNCHANGED outsideStore

\* The row a committed transaction leaves in the object table.
RowAfter(t) == IF t.type = DeleteEvent THEN 0 ELSE t.val

\* A slip in which the writing process also puts the row into the replica's
\* map when it commits.
WriterCommitWriteThrough(w) ==
    /\ wtx[w].open
    /\ rows' = [rows EXCEPT ![wtx[w].obj] = RowAfter(wtx[w])]
    /\ mirror' = [mirror EXCEPT ![wtx[w].obj] = RowAfter(wtx[w])]
    /\ elog' = [elog EXCEPT ![wtx[w].eid].st = "committed"]
    /\ wtx' = [wtx EXCEPT ![w] = NoTx]
    /\ mFresh' = FALSE
    /\ UNCHANGED <<mRanges, mInit, mLost, mAtSync, mLate, mOrdered, mMax, noRows>>
    /\ UNCHANGED outsideStore

\* tx.Commit(): the row change and its event become visible together.
WriterCommit(w) ==
    /\ wtx[w].open
    /\ rows' = [rows EXCEPT ![wtx[w].obj] = RowAfter(wtx[w])]
    /\ elog' = [elog EXCEPT ![wtx[w].eid].st = "committed"]
    /\ wtx' = [wtx EXCEPT ![w] = NoTx]
    /\ mFresh' = FALSE
    /\ UNCHANGED <<mirror, mRanges, mInit, mLost, mAtSync, mLate, mOrdered, mMax, noRows>>
    /\ UNCHANGED outsideStore

\* tx.Rollback(): neither the row change nor the event is ever visible; the
\* event ID stays unused.
WriterRollback(w) ==
    /\ wtx[w].open
    /\ elog' = [elog EXCEPT ![wtx[w].eid].st = "aborted"]
    /\ wtx' = [wtx EXCEPT ![w] = NoTx]
    /\ UNCHANGED <<rows, mirror, mRanges, mInit, mFresh, mLost, mAtSync, mLate, mOrdered, mMax, noRows>>
    /\ UNCHANGED outsideStore

(***************************************************************************)
(* The cached store: InitTx, SyncTx and the apply hooks.                   *)
(***************************************************************************)
\* onCreateObject / onUpdateObject / onDeleteObject on the map of a store.
onCreateObject(m, o, v) == [m EXCEPT ![o] = v]

onDeleteObject(m, o) == [m EXCEPT ![o] = 0]

onUpdateObject(m, o, v) == onCreateObject(IF m[o] # 0 THEN onDeleteObject(m, o) ELSE m, o, v)

\* A slip in which update events are not applied.
consumeEventNoUpdate(m, ev) ==
    IF ev.type = CreateEvent THEN onCreateObject(m, ev.obj, ev.val)
    ELSE IF ev.type = DeleteEvent THEN onDeleteObject(m, ev.obj)
    ELSE m

Increasing(q) == \A a \in 1..Len(q) : \A b \in 1..Len(q) : a < b => q[a] < q[b]

MaxOf(S) == CHOOSE x \in S : \A y \in S : y <= x

\* baseStore.consumeEvent
consumeEvent(m, ev) ==
    IF ev.type = CreateEvent THEN onCreateObject(m, ev.obj, ev.val)
    ELSE IF ev.type = DeleteEvent THEN onDeleteObject(m, ev.obj)
    ELSE onUpdateObject(m, ev.obj, ev.val)

\* The loop of ConsumeEvents with fn = s.consumeEvent, which returns nil for
\* each of the three event types: every event of the reader is located,
\* applied and its range advanced. err is the "invalid event ID" return.
RECURSIVE Drain(_, _, _, _, _, _)
Drain(log, rs, i, evs, m, seen) ==
    IF evs = <<>>
    THEN [ranges |-> removeEmptyRanges(rs), lost |-> Trimmed(rs), mirror |-> m, err |-> FALSE,
          seen |-> seen]
    ELSE LET id == Head(evs)
             j  == Locate(rs, i, id)
         IN  IF j = Len(rs)
             THEN [ranges |-> rs, lost |-> {}, mirror |-> m, err |-> TRUE, seen |-> seen]
             ELSE Drain(log, Advance(rs, j, id), j, Tail(evs), consumeEvent(m, log[id]),
                        Append(seen, id))

\* The same loop with fn = func(db.Event) error { return nil }.
RECURSIVE Skim(_, _, _)
Skim(rs, i, evs) ==
    IF evs = <<>>
    THEN [ranges |-> removeEmptyRanges(rs), lost |-> Trimmed(rs), err |-> FALSE]
    ELSE LET id == Head(evs)
             j  == Locate(rs, i, id)
         IN  IF j = Len(rs)
             THEN [ranges |-> rs, lost |-> {}, err |-> TRUE]
             ELSE Skim(Advance(rs, j, id), j, Tail(evs))

\* EventStore.LastEventID: the largest visible event ID, 0 for sql.ErrNoRows.
LastEventID(log) ==
    IF Visible(log) = {} THEN 0
    ELSE CHOOSE e \in Visible(log) : \A x \in Visible(log) : x <= e

\* A variant of initEvents that starts at the last event ID itself.
InitBeginIDNoWindow(log) == IF LastEventID(log) = 0 THEN 1 ELSE LastEventID(log)

\* initEvents: the ID the consumer starts from.
InitBeginID(log) ==
    LET last == IF LastEventID(log) = 0 THEN 1 ELSE LastEventID(log)
    IN  IF last > InitWindow THEN last - InitWindow ELSE 1

\* baseStore.InitTx: initEvents (create the consumer, consume what is visible
\* with a no-op) and then initObjects (reset, load every row).
InitTx ==
    /\ ~mInit
    /\ LET b == InitBeginID(elog)
           r == Skim(NewEventConsumer(b), 0, LoadEvents(Visible(elog), NewEventConsumer(b)))
       IN  /\ ~r.err
           /\ mRanges' = r.ranges
           /\ mLost' = {e \in (1..(b - 1)) \cup r.lost : e \notin Visible(elog)}
    /\ mirror' = rows
    /\ mAtSync' = rows
    /\ mInit' = TRUE
    /\ mFresh' = FALSE
    /\ UNCHANGED <<rows, elog, wtx, mLate, mOrdered, mMax, noRows>>
    /\ UNCHANGED outsideStore

\* baseStore.SyncTx: ConsumeEvents(tx, s.consumeEvent) under the store mutex.
SyncTx ==
    /\ mInit
    /\ LET r == Drain(elog, mRanges, 0, LoadEvents(Visible(elog), mRanges), mirror, <<>>)
       IN  /\ ~r.err
           /\ mOrdered' = (mOrdered /\ Increasing(r.seen))
           /\ mMax' = MaxOf({mMax} \cup SeqRange(r.seen))
           /\ mLate' = (mLate \/ \E k \in SeqRange(r.seen) : k < mMax)
           /\ mRanges' = r.ranges
           /\ mirror' = r.mirror
           /\ mAtSync' = r.mirror
           /\ mLost' = mLost \cup r.lost
    /\ mFresh' = TRUE
    /\ UNCHANGED <<rows, elog, wtx, mInit, noRows>>
    /\ UNCHANGED outsideStore

\* Empty tables and a replica that has not been initialised.
StoreInit ==
    /\ rows = [o \in ObjIDs |-> 0]
    /\ elog = [e \in EventIDs |-> NoEvent]
    /\ wtx = [w \in Writers |-> NoTx]
    /\ mirror = [o \in ObjIDs |-> 0]
    /\ mRanges = <<>>
    /\ mInit = FALSE
    /\ mFresh = FALSE
    /\ mLost = {}
    /\ mAtSync = [o \in ObjIDs |-> 0]
    /\ mLate = FALSE
    /\ mOrdered = TRUE
    /\ mMax = 0
    /\ noRows = FALSE

(***************************************************************************)
(* The task queue: TaskStore, its mirror and the task event table.         *)
(***************************************************************************)
Queued == 0
Running == 1
Succeeded == 2
Failed == 3
JudgeSolutionTask == 1
\* The lease PopQueued and a heartbeat grant, in seconds.
LeaseSeconds == 5

TaskStatuses == {Queued, Running, Succeeded, Failed}
\* The zero kind of a Task{} literal and the judge kind.
TaskKinds == {0, JudgeSolutionTask}

NoTask == [status |-> -1, kind |-> 0, expire |-> 0]
NoTaskEvent == [st |-> "free", type |-> 0, obj |-> 0, val |-> NoTask]
NoWork == [id |-> 0, row |-> NoTask, eid |-> 0, at |-> 0, mq |-> {}, dbq |-> {}, dbx |-> {},
           err |-> FALSE]
NoPop == [res |-> "none", id |-> 0, mq |-> {}, dbq |-> {}, dbx |-> {},
          task |-> NoTask, row |-> NoTask]

\* The filter the invoker passes to PopQueued.
isSupportedTask(kind) == kind = JudgeSolutionTask

makeIndex == [k \in TaskStatuses |-> {}]

indexCreate(ix, key, id) == [ix EXCEPT ![key] = @ \cup {id}]

indexDelete(ix, key, id) == [ix EXCEPT ![key] = @ \ {id}]

\* TaskStore.reset
TaskStoreReset(rs) == [tasks |-> [t \in TaskIDs |-> NoTask], byStatus |-> makeIndex, ranges |-> rs]

\* TaskStore.onCreateObject
TaskOnCreateObject(m, id, t) ==
    [m EXCEPT !.tasks[id] = t, !.byStatus = indexCreate(@, t.status, id)]

\* TaskStore.onDeleteObject
TaskOnDeleteObject(m, id) ==
    IF m.tasks[id] # NoTask
    THEN [m EXCEPT !.byStatus = indexDelete(@, m.tasks[id].status, id), !.tasks[id] = NoTask]
    ELSE m

\* A slip in which an update only inserts the new entry.
TaskOnUpdateObjectNoDelete(m, id, t) == TaskOnCreateObject(m, id, t)

\* An update event replaces the stored task: the old entry leaves the index
\* under its old status, the new one enters under its new status.
TaskOnUpdateObject(m, id, t) == TaskOnCreateObject(TaskOnDeleteObject(m, id), id, t)

\* baseStore.consumeEvent with the hooks of TaskStore.
TaskConsumeEvent(m, ev) ==
    IF ev.type = CreateEvent THEN TaskOnCreateObject(m, ev.obj, ev.val)
    ELSE IF ev.type = DeleteEvent THEN TaskOnDeleteObject(m, ev.obj)
    ELSE TaskOnUpdateObject(m, ev.obj, ev.val)

\* The loop of ConsumeEvents with fn = consumeEvent of the task store.
RECURSIVE TaskDrain(_, _, _, _, _)
TaskDrain(log, rs, i, evs, m) ==
    IF evs = <<>>
    THEN [m |-> [m EXCEPT !.ranges = removeEmptyRanges(rs)], err |-> FALSE]
    ELSE LET id == Head(evs)
             j  == Locate(rs, i, id)
         IN  IF j = Len(rs)
             THEN [m |-> [m EXCEPT !.ranges = rs], err |-> TRUE]
             ELSE TaskDrain(log, Advance(rs, j, id), j, Tail(evs), TaskConsumeEvent(m, log[id]))

\* TaskStore.Sync of the process p: SyncTx on its mirror.
TaskSync(p) ==
    TaskDrain(tlog, pm[p].ranges, 0, LoadEvents(Visible(tlog), pm[p].ranges), pm[p])

\* The IDs of the task table handed out so far; tasks are never deleted.
NextTaskID ==
    IF \A t \in TaskIDs : trows[t] # NoTask THEN 0
    ELSE CHOOSE t \in TaskIDs : trows[t] = NoTask /\ \A u \in TaskIDs : u < t => trows[u] # NoTask

\* Store.Update or Store.Create in a transaction of its own: the row and its
\* event become visible together.
TaskStoreWrite(type, id, row) ==
    /\ trows' = [trows EXCEPT ![id] = row]
    /\ tlog' = [tlog EXCEPT ![NextEventID(tlog)] =
                   [st |-> "committed", type |-> type, obj |-> id, val |-> row]]

\* A slip in which lockStore takes the branch that locks nothing.
lockStoreSQLite(held) == TRUE
\* baseStore.lockStore, default branch: LOCK TABLE is granted when no other
\* transaction holds a lock on the table.
lockStore(held) == held = {}

\* A slip in which PopQueued walks all tasks of the mirror.
AllIDs(m) == {id \in TaskIDs : m.tasks[id] # NoTask}
\* The IDs PopQueued ranges over: s.byStatus[Queued].
QueuedIDs(m) == m.byStatus[Queued]

\* The tasks of the mirror that pass the test inside the loop of PopQueued.
Candidates(m) == {id \in QueuedIDs(m) : m.tasks[id] # NoTask /\ isSupportedTask(m.tasks[id].kind)}

\* TaskStore.FindByStatus: the tasks of the mirror listed under the status.
FindByStatus(m, status) == {id \in m.byStatus[status] : m.tasks[id] # NoTask}

\* A slip in which the lease ends at once.
LeaseExpireNow(t) == t
\* time.Now().Add(5 * time.Second).Unix()
LeaseExpire(t) == t + LeaseSeconds

\* What the task table holds when a call looks at it.
DBQueued == {t \in TaskIDs : trows[t].status = Queued /\ isSupportedTask(trows[t].kind)}
DBExpired == {t \in TaskIDs : /\ trows[t].status = Running
                              /\ trows[t].expire < now
                              /\ isSupportedTask(trows[t].kind)}

(***************************************************************************)
(* The task queue: the API creating tasks, PopQueued and runDaemonTick.    *)
(***************************************************************************)
\* Tasks.Create of the API: a queued task, its kind as the caller set it.
CreateTask ==
    /\ tlock = {}
    /\ NextEventID(tlog) # 0
    /\ NextTaskID # 0
    /\ \E k \in TaskKinds :
         TaskStoreWrite(CreateEvent, NextTaskID, [status |-> Queued, kind |-> k, expire |-> 0])
    /\ UNCHANGED <<tlock, now, procOf, pm, wpc, wtask, hb, popCount, lastPop>>
    /\ UNCHANGED outsideTasks

\* PopQueued when the loop finds no task: lockStore, Sync, sql.ErrNoRows; the
\* transaction ends without a write and the lock is released.
PopQueuedNoRows(w) ==
    /\ wpc[w] = "idle"
    /\ lockStore(tlock)
    /\ LET r == TaskSync(procOf[w])
       IN  /\ ~r.err
           /\ Candidates(r.m) = {}
           /\ pm' = [pm EXCEPT ![procOf[w]] = r.m]
    /\ lastPop' = [NoPop EXCEPT !.res = "norows", !.dbq = DBQueued, !.dbx = DBExpired]
    /\ UNCHANGED <<trows, tlog, tlock, now, procOf, wpc, wtask, hb, popCount>>
    /\ UNCHANGED outsideTasks

\* PopQueued up to the return of s.Update: lockStore, Sync, the loop picks a
\* task (Go ranges over a map in no fixed order), marks its clone running with
\* a lease and writes row and event inside the transaction.
PopQueuedSelect(w) ==
    /\ wpc[w] = "idle"
    /\ lockStore(tlock)
    /\ NextEventID(tlog) # 0
    /\ LET r == TaskSync(procOf[w])
       IN  /\ ~r.err
           /\ pm' = [pm EXCEPT ![procOf[w]] = r.m]
           /\ \E id \in Candidates(r.m) :
                LET task == [r.m.tasks[id] EXCEPT !.status = Running, !.expire = LeaseExpire(now)]
                    e    == NextEventID(tlog)
                IN  /\ tlog' = [tlog EXCEPT ![e] = [st |-> "pending", type |-> UpdateEvent,
                                                    obj |-> id, val |-> task]]
                    /\ wtask' = [wtask EXCEPT ![w] = [id |-> id, row |-> task, eid |-> e, at |-> now,
                                                      mq |-> Candidates(r.m), dbq |-> DBQueued,
                                                      dbx |-> DBExpired, err |-> FALSE]]
    /\ tlock' = tlock \cup {w}
    /\ wpc' = [wpc EXCEPT ![w] = "popping"]
    /\ UNCHANGED <<trows, now, procOf, hb, popCount, lastPop>>
    /\ UNCHANGED outsideTasks

\* A task with its expire time taken relative to the second t.
Rel(row, t) == [row EXCEPT !.expire = @ - t]

\* The pop transaction commits and PopQueued returns the task; runDaemonTick
\* starts the heartbeat goroutine and onTask.
PopQueuedCommit(w) ==
    /\ wpc[w] = "popping"
    /\ trows' = [trows EXCEPT ![wtask[w].id] = wtask[w].row]
    /\ tlog' = [tlog EXCEPT ![wtask[w].eid].st = "committed"]
    /\ tlock' = tlock \ {w}
    /\ wpc' = [wpc EXCEPT ![w] = "judging"]
    /\ hb' = [hb EXCEPT ![w] = TRUE]
    /\ wtask' = [wtask EXCEPT ![w] = [NoWork EXCEPT !.id = wtask[w].id, !.row = wtask[w].row]]
    /\ popCount' = [popCount EXCEPT ![wtask[w].id] = IF @ < 2 THEN @ + 1 ELSE 2]
    /\ lastPop' = [res |-> "task", id |-> wtask[w].id, mq |-> wtask[w].mq,
                   dbq |-> wtask[w].dbq, dbx |-> wtask[w].dbx,
                   task |-> Rel(wtask[w].row, wtask[w].at),
                   row |-> Rel(trows'[wtask[w].id], wtask[w].at)]
    /\ UNCHANGED <<now, procOf, pm>>
    /\ UNCHANGED outsideTasks

\* The heartbeat goroutine on a tick of its one-second ticker, lease still
\* valid: Tasks.Update of a clone with a new expire time.
HeartbeatPing(w) ==
    /\ wpc[w] \in {"judging", "final"}
    /\ hb[w]
    /\ ~(now > wtask[w].row.expire)
    /\ LeaseExpire(now) > wtask[w].row.expire
    /\ tlock = {}
    /\ NextEventID(tlog) # 0
    /\ LET clone == [wtask[w].row EXCEPT !.expire = LeaseExpire(now)]
       IN  /\ TaskStoreWrite(UpdateEvent, wtask[w].id, clone)
           /\ wtask' = [wtask EXCEPT ![w].row = clone]
    /\ UNCHANGED <<tlock, now, procOf, pm, wpc, hb, popCount, lastPop>>
    /\ UNCHANGED outsideTasks

\* The heartbeat goroutine on a tick after the lease has run out: it logs
\* "Task expired" and returns.
HeartbeatExpired(w) ==
    /\ wpc[w] \in {"judging", "final"}
    /\ hb[w]
    /\ now > wtask[w].row.expire
    /\ hb' = [hb EXCEPT ![w] = FALSE]
    /\ UNCHANGED <<trows, tlog, tlock, now, procOf, pm, wpc, wtask, popCount, lastPop>>
    /\ UNCHANGED outsideTasks

\* A slip in which the worker does not wait for the heartbeat goroutine.
onTaskReturnNoWait(w) ==
    /\ wpc[w] = "judging"
    /\ \E err \in BOOLEAN :
         wtask' = [wtask EXCEPT ![w].err = err,
                                ![w].row.status = IF err THEN Failed ELSE Succeeded]
    /\ wpc' = [wpc EXCEPT ![w] = "final"]
    /\ UNCHANGED <<trows, tlog, tlock, now, procOf, pm, hb, popCount, lastPop>>
    /\ UNCHANGED outsideTasks

\* onTask returns with or without an error; cancel() and waiter.Wait() end the
\* heartbeat goroutine; task.Status becomes failed or succeeded.
onTaskReturn(w) ==
    /\ wpc[w] = "judging"
    /\ \E err \in BOOLEAN :
         wtask' = [wtask EXCEPT ![w].err = err,
                                ![w].row.status = IF err THEN Failed ELSE Succeeded]
    /\ hb' = [hb EXCEPT ![w] = FALSE]
    /\ wpc' = [wpc EXCEPT ![w] = "final"]
    /\ UNCHANGED <<trows, tlog, tlock, now, procOf, pm, popCount, lastPop>>
    /\ UNCHANGED outsideTasks

\* The deferred function of runDaemonTick: Tasks.Update of the task with its
\* final status, under a context whose deadline is ExpireTime.
FinishTask(w) ==
    /\ wpc[w] = "final"
    /\ now < wtask[w].row.expire
    /\ tlock = {}
    /\ NextEventID(tlog) # 0
    /\ TaskStoreWrite(UpdateEvent, wtask[w].id, wtask[w].row)
    /\ wpc' = [wpc EXCEPT ![w] = "idle"]
    /\ wtask' = [wtask EXCEPT ![w] = NoWork]
    /\ UNCHANGED <<tlock, now, procOf, pm, hb, popCount, lastPop>>
    /\ UNCHANGED outsideTasks

\* The same when the deadline ExpireTime has passed: the context of the
\* deferred Update is already done, the error is logged, nothing is written.
FinishTaskLate(w) ==
    /\ wpc[w] = "final"
    /\ now >= wtask[w].row.expire
    /\ wpc' = [wpc EXCEPT ![w] = "idle"]
    /\ wtask' = [wtask EXCEPT ![w] = NoWork]
    /\ UNCHANGED <<trows, tlog, tlock, now, procOf, pm, hb, popCount, lastPop>>
    /\ UNCHANGED outsideTasks

\* onTask panics: the deferred function recovers, sets the local status and
\* panics again before its Update, which ends the process. An open pop
\* transaction of the same process is rolled back.
WorkerCrash(w) ==
    /\ wpc[w] = "judging"
    /\ LET gone == {v \in Invokers : procOf[v] = procOf[w]}
           open == {v \in gone : wpc[v] = "popping"}
       IN  /\ wpc' = [v \in Invokers |-> IF v \in gone THEN "dead" ELSE wpc[v]]
           /\ wtask' = [v \in Invokers |-> IF v \in gone THEN NoWork ELSE wtask[v]]
           /\ hb' = [v \in Invokers |-> IF v \in gone THEN FALSE ELSE hb[v]]
           /\ tlock' = tlock \ open
           /\ tlog' = [e \in DOMAIN tlog |->
                          IF \E v \in open : wtask[v].eid = e
                          THEN [tlog[e] EXCEPT !.st = "aborted"] ELSE tlog[e]]
    /\ UNCHANGED <<trows, now, procOf, pm, popCount, lastPop>>
    /\ UNCHANGED outsideTasks

\* A second passes. Only leases read the clock, so the seconds counted are
\* those that pass while a lease is requested or outstanding.
Tick ==
    /\ now < MaxTime
    /\ \/ \E w \in Invokers : wpc[w] \in {"popping", "judging", "final"}
       \/ \E t \in TaskIDs : trows[t].status = Running
    /\ now' = now + 1
    /\ UNCHANGED <<trows, tlog, tlock, procOf, pm, wpc, wtask, hb, popCount, lastPop>>
    /\ UNCHANGED outsideTasks

\* Both workers in one process, or one worker in each of two processes.
Placements == {[v \in Invokers |-> "p1"], [v \in Invokers |-> IF v = "i1" THEN "p1" ELSE "p2"]}

\* Empty task tables, every process initialised on them (InitTx: beginID 1,
\* no rows), every worker between two ticks of its daemon loop.
TasksInitAt(po) ==
    /\ trows = [t \in TaskIDs |-> NoTask]
    /\ tlog = [e \in 1..MaxTaskEvents |-> NoTaskEvent]
    /\ tlock = {}
    /\ now = 0
    /\ procOf = po
    /\ pm = [p \in Procs |-> TaskStoreReset(NewEventConsumer(1))]
    /\ wpc = [v \in Invokers |-> "idle"]
    /\ wtask = [v \in Invokers |-> NoWork]
    /\ hb = [v \in Invokers |-> FALSE]
    /\ popCount = [t \in TaskIDs |-> 0]
    /\ lastPop = NoPop

(***************************************************************************)
(* Judging of one solution: onJudgeSolution of the invoker, the later      *)
(* executeImpl of judgeSolutionTask, and the rejudge request of the API.   *)
(***************************************************************************)
Accepted == "accepted"
Rejected == "rejected"
WrongAnswer == "wrong_answer"
RuntimeError == "runtime_error"
TimeLimitExceeded == "time_limit_exceeded"
MemoryLimitExceeded == "memory_limit_exceeded"
CompilationError == "compilation_error"
PartiallyAccepted == "partially_accepted"

\* solution.Report is null.
NullReport == [verdict |-> "null", tests |-> <<>>]

\* No judging has declared its report variable.
NoReport == [verdict |-> "none", tests |-> <<>>]

\* report := models.SolutionReport{Verdict: models.Rejected}
NewReport == [verdict |-> Rejected, tests |-> <<>>]

\* Problem packages: the number of tests of each test set.
Packages == {<< >>, <<1>>, <<2>>, <<0, 1>>, <<1, 1>>}

\* How a run of the solution in the sandbox ended.
Sandbox == {"exit0", "timekill", "exitN", "memkill", "broken"}

\* The error compier.Execute returns for each end of the sandbox: nil, an
\* error that is context.DeadlineExceeded, an exitCodeError, or another error.
\* A process killed for its memory ends with an exit state or with a broken
\* container.
ExecuteErrs(sb) ==
    CASE sb = "exit0" -> {"nil"}
      [] sb = "timekill" -> {"deadline"}
      [] sb = "exitN" -> {"exit"}
      [] sb = "memkill" -> {"exit", "other"}
      [] OTHER -> {"other"}

\* Results of compareFiles: equal after stripping whitespace, different, or
\* a file could not be read.
Compare == {"ok", "differ", "error"}

\* The verdict and the check log of one test, from the error of Execute and,
\* when there is none, the result of compareFiles.
Classify(err, cmp) ==
    IF err = "nil"
    THEN IF cmp = "error" THEN [verdict |-> Rejected, log |-> "unable to compare files"]
         ELSE IF cmp = "ok" THEN [verdict |-> Accepted, log |-> "ok"]
         ELSE [verdict |-> WrongAnswer, log |-> "expected, got"]
    ELSE IF err = "deadline" THEN [verdict |-> TimeLimitExceeded, log |-> ""]
    ELSE IF err = "exit" THEN [verdict |-> RuntimeError, log |-> "Exit code"]
    ELSE [verdict |-> Rejected, log |-> "Unknown error"]

\* The loop position past the last test set.
PastTests(sets) == <<Len(sets) + 1, 1>>

\* The first test of test set s or of the first later set that has a test.
RECURSIVE FirstFrom(_, _)
FirstFrom(sets, s) ==
    IF s > Len(sets) THEN PastTests(sets)
    ELSE IF sets[s] >= 1 THEN <<s, 1>>
    ELSE FirstFrom(sets, s + 1)

\* The next iteration of the two nested range loops.
NextPos(sets, pos) ==
    IF pos[2] < sets[pos[1]] THEN <<pos[1], pos[2] + 1>> ELSE FirstFrom(sets, pos[1] + 1)

\* The final loop over report.Tests.
OverallVerdict(tests) ==
    IF \A k \in 1..Len(tests) : tests[k].verdict = Accepted THEN Accepted ELSE PartiallyAccepted

\* solution.SetReport(&report) and Solutions.Update(ctx, solution); a failed
\* update leaves the row as it was.
WriteReport(rep, saved) == solReport' = (IF saved THEN rep ELSE solReport)

\* onJudgeSolution returns err after its report variable was declared: the
\* deferred function writes the report.
ReturnError(rep) ==
    /\ \E saved \in BOOLEAN : WriteReport(rep, saved)
    /\ report' = rep
    /\ jpc' = "returned"
    /\ jret' = "error"

\* onJudgeSolution is called for the next queued task of the solution: task
\* config, solution and problem are fetched, the report variable is declared,
\* the problem, the solution file and the compiler image are fetched.
JudgeStart ==
    /\ jpc \in {"idle", "returned"}
    /\ pending > 0
    /\ pending' = pending - 1
    /\ compiled' = "none"
    /\ \E res \in {"nofetch", "noprepare", "ok"} :
         CASE res = "nofetch" ->
                /\ report' = NoReport
                /\ jpc' = "returned"
                /\ jret' = "error"
                /\ UNCHANGED solReport
           [] res = "noprepare" -> ReturnError(NewReport)
           [] OTHER ->
                /\ report' = NewReport
                /\ jpc' = "prepared"
                /\ jret' = "none"
                /\ UNCHANGED solReport
    /\ UNCHANGED <<pkgSets, jpos>>
    /\ UNCHANGED outsideJudge

\* compier.Compile and the reading of the compile log.
JudgeCompile ==
    /\ jpc = "prepared"
    /\ \E ok \in BOOLEAN :
         IF ok
         THEN /\ compiled' = "ok"
              /\ jpc' = "compiled"
              /\ UNCHANGED <<solReport, report, jret>>
         ELSE /\ compiled' = "failed"
              /\ ReturnError([report EXCEPT !.verdict = CompilationError])
    /\ UNCHANGED <<pending, pkgSets, jpos>>
    /\ UNCHANGED outsideJudge

\* polygon.ReadProblem, and the entry of the test loop.
JudgeReadProblem ==
    /\ jpc = "compiled"
    /\ \E ok \in BOOLEAN :
         IF ok
         THEN /\ jpc' = "testing"
              /\ jpos' = FirstFrom(pkgSets, 1)
              /\ UNCHANGED <<solReport, report, jret>>
         ELSE /\ ReturnError(report)
              /\ UNCHANGED jpos
    /\ UNCHANGED <<pending, pkgSets, compiled>>
    /\ UNCHANGED outsideJudge

\* A variant of the loop body that gives up on the first test the sandbox
\* did not run to a normal exit.
RunTestStopsOnError ==
    /\ jpc = "testing"
    /\ jpos # PastTests(pkgSets)
    /\ \E sb \in Sandbox : \E err \in ExecuteErrs(sb) :
         \E cmp \in (IF err = "nil" THEN Compare ELSE {"none"}) :
           LET c == Classify(err, cmp)
               t == [test |-> jpos, sandbox |-> sb, verdict |-> c.verdict, log |-> c.log]
           IN  IF err = "nil"
               THEN /\ report' = [report EXCEPT !.tests = Append(@, t)]
                    /\ jpos' = NextPos(pkgSets, jpos)
                    /\ UNCHANGED <<solReport, jpc, jret>>
               ELSE /\ ReturnError(report)
                    /\ UNCHANGED jpos
    /\ UNCHANGED <<pending, pkgSets, compiled>>
    /\ UNCHANGED outsideJudge

\* One iteration of the test loop: the solution runs on the test in the
\* sandbox and one test report is appended. The field test of a test report
\* stands for its Input, the field sandbox records how the run ended.
RunTest ==
    /\ jpc = "testing"
    /\ jpos # PastTests(pkgSets)
    /\ \E sb \in Sandbox : \E err \in ExecuteErrs(sb) :
         \E cmp \in (IF err = "nil" THEN Compare ELSE {"none"}) :
           LET c == Classify(err, cmp)
               t == [test |-> jpos, sandbox |-> sb, verdict |-> c.verdict, log |-> c.log]
           IN  report' = [report EXCEPT !.tests = Append(@, t)]
    /\ jpos' = NextPos(pkgSets, jpos)
    /\ UNCHANGED <<solReport, pending, jpc, jret, pkgSets, compiled>>
    /\ UNCHANGED outsideJudge

\* The test loop has ended: the overall verdict is set, onJudgeSolution
\* returns nil and the deferred function writes the report.
JudgeFinish ==
    /\ jpc = "testing"
    /\ jpos = PastTests(pkgSets)
    /\ LET rep == [report EXCEPT !.verdict = OverallVerdict(report.tests)]
       IN  /\ report' = rep
           /\ \E saved \in BOOLEAN : WriteReport(rep, saved)
    /\ jpc' = "returned"
    /\ jret' = "nil"
    /\ UNCHANGED <<pending, pkgSets, jpos, compiled>>
    /\ UNCHANGED outsideJudge

\* judgeSolutionTask.executeImpl, the judging of the later revision: prepare,
\* compile, write the report; no test is run.
executeImpl ==
    /\ jpc \in {"idle", "returned"}
    /\ pending > 0
    /\ pending' = pending - 1
    /\ jpc' = "returned"
    /\ \E res \in {"noprepare", "nocompiler", "failed", "ok"} :
         IF res \in {"noprepare", "nocompiler"}
         THEN /\ report' = (IF res = "noprepare" THEN NoReport ELSE NewReport)
              /\ compiled' = "none"
              /\ jret' = "error"
              /\ UNCHANGED solReport
         ELSE LET rep == IF res = "ok" THEN NewReport
                         ELSE [NewReport EXCEPT !.verdict = CompilationError]
              IN  /\ report' = rep
                  /\ compiled' = res
                  /\ \E saved \in BOOLEAN :
                       /\ WriteReport(rep, saved)
                       /\ jret' = (IF saved THEN "nil" ELSE "error")
    /\ UNCHANGED <<pkgSets, jpos>>
    /\ UNCHANGED outsideJudge

\* rejudgeContestSolution: in one transaction the report of the solution is
\* set to null and a new judge task is created.
Rejudge ==
    /\ pending < MaxJudgeTasks
    /\ solReport' = NullReport
    /\ pending' = pending + 1
    /\ UNCHANGED <<jpc, report, jret, pkgSets, jpos, compiled>>
    /\ UNCHANGED outsideJudge

\* A solution has been submitted for a problem with package p: its report is
\* null and its judge task is queued.
JudgeInitAt(p) ==
    /\ solReport = NullReport
    /\ pending = 1
    /\ jpc = "idle"
    /\ report = NoReport
    /\ jret = "none"
    /\ pkgSets = p
    /\ jpos = <<1, 1>>
    /\ compiled = "none"

JudgeIdle == JudgeInitAt(<<1>>)

(***************************************************************************)
(* SessionStore: the session table, its events and the mirror with the    *)
(* byAccount index.                                                        *)
(***************************************************************************)
SessionIDs == {1, 2}
Accounts == {1, 2}
\* Keys an index lookup can name: the accounts and the zero value.
AccountKeys == Accounts \cup {0}

\* SessionStore.reset
SessionStoreReset == [sessions |-> [i \in SessionIDs |-> 0], byAccount |-> [k \in AccountKeys |-> {}]]

\* SessionStore.onCreateObject
SessionOnCreateObject(m, id, account) ==
    [sessions |-> [m.sessions EXCEPT ![id] = account],
     byAccount |-> indexCreate(m.byAccount, account, id)]

\* SessionStore.onDeleteObject: the index key is the AccountID of the session
\* passed in.
SessionOnDeleteObject(m, id, account) ==
    [sessions |-> [m.sessions EXCEPT ![id] = 0],
     byAccount |-> indexDelete(m.byAccount, account, id)]

\* SessionStore.onUpdateObject
SessionOnUpdateObject(m, id, account) ==
    SessionOnCreateObject(
        IF m.sessions[id] # 0 THEN SessionOnDeleteObject(m, id, m.sessions[id]) ELSE m,
        id, account)

\* baseStore.consumeEvent with the hooks of SessionStore.
SessionConsumeEvent(m, ev) ==
    IF ev.type = CreateEvent THEN SessionOnCreateObject(m, ev.id, ev.account)
    ELSE IF ev.type = DeleteEvent THEN SessionOnDeleteObject(m, ev.id, ev.account)
    ELSE SessionOnUpdateObject(m, ev.id, ev.account)

\* The events from position k on, consumed in order.
RECURSIVE SessionDrain(_, _, _)
SessionDrain(m, log, k) ==
    IF k > Len(log) THEN m ELSE SessionDrain(SessionConsumeEvent(m, log[k]), log, k + 1)

\* The ID the session table gives to the next created session, 0 when the
\* IDs of the model are used up.
NextSessionID ==
    LET used == {sessLog[k].id : k \in 1..Len(sessLog)}
    IN  IF SessionIDs \subseteq used THEN 0
        ELSE CHOOSE i \in SessionIDs \ used : \A j \in SessionIDs \ used : i <= j

\* Store.Create: the row is inserted and the create event carries the object.
SessionCreate ==
    /\ Len(sessLog) < MaxSessionEvents
    /\ NextSessionID # 0
    /\ \E a \in Accounts :
         /\ sessRows' = [sessRows EXCEPT ![NextSessionID] = a]
         /\ sessLog' = Append(sessLog, [type |-> CreateEvent, id |-> NextSessionID, account |-> a])
    /\ UNCHANGED <<sessSeen, sessions, byAccount>>
    /\ UNCHANGED outsideSession

\* Store.Update: the row is replaced and the update event carries the object.
SessionUpdate ==
    /\ Len(sessLog) < MaxSessionEvents
    /\ \E id \in SessionIDs : \E a \in Accounts :
         /\ sessRows[id] # 0
         /\ sessRows' = [sessRows EXCEPT ![id] = a]
         /\ sessLog' = Append(sessLog, [type |-> UpdateEvent, id |-> id, account |-> a])
    /\ UNCHANGED <<sessSeen, sessions, byAccount>>
    /\ UNCHANGED outsideSession

\* SessionStore.DeleteTx(id): the row is deleted and the delete event carries
\* Session{ID: id}, whose AccountID is the zero value.
SessionDeleteTx ==
    /\ Len(sessLog) < MaxSessionEvents
    /\ \E id \in SessionIDs :
         /\ sessRows[id] # 0
         /\ sessRows' = [sessRows EXCEPT ![id] = 0]
         /\ sessLog' = Append(sessLog, [type |-> DeleteEvent, id |-> id, account |-> 0])
    /\ UNCHANGED <<sessSeen, sessions, byAccount>>
    /\ UNCHANGED outsideSession

\* SyncTx of the session store: the events not yet consumed are applied.
SessionSync ==
    /\ sessSeen < Len(sessLog)
    /\ LET m == SessionDrain([sessions |-> sessions, byAccount |-> byAccount], sessLog, sessSeen + 1)
       IN  /\ sessions' = m.sessions
           /\ byAccount' = m.byAccount
    /\ sessSeen' = Len(sessLog)
    /\ UNCHANGED <<sessRows, sessLog>>
    /\ UNCHANGED outsideSession

\* An empty session table and a store initialised on it.
SessionIdle ==
    /\ sessRows = [i \in SessionIDs |-> 0]
    /\ sessLog = << >>
    /\ sessSeen = 0
    /\ sessions = SessionStoreReset.sessions
    /\ byAccount = SessionStoreReset.byAccount

(***************************************************************************)
(* compareFiles, the comparator of the invoker.                            *)
(***************************************************************************)
\* The four bytes compareFiles removes, and two bytes it keeps.
Whitespace == {"\n", "\r", "\t", " "}
Bytes == Whitespace \cup {"a", "b"}

\* The files of at most n bytes.
Files(n) == UNION {[1..k -> Bytes] : k \in 0..n}

\* A slip in which only the first occurrence is removed.
RECURSIVE ReplaceFirst(_, _)
ReplaceFirst(s, ch) ==
    IF s = << >> THEN << >>
    ELSE IF Head(s) = ch THEN Tail(s)
    ELSE <<Head(s)>> \o ReplaceFirst(Tail(s), ch)

\* strings.ReplaceAll(s, ch, "")
RECURSIVE ReplaceAll(_, _)
ReplaceAll(s, ch) ==
    IF s = << >> THEN << >>
    ELSE IF Head(s) = ch THEN ReplaceAll(Tail(s), ch)
    ELSE <<Head(s)>> \o ReplaceAll(Tail(s), ch)

\* The four ReplaceAll calls of compareFiles, in their order.
StripWhitespace(s) == ReplaceAll(ReplaceAll(ReplaceAll(ReplaceAll(s, "\n"), "\r"), "\t"), " ")

\* compareFiles on two files that could be read: "ok" and true, or the
\* "expected ..., got ..." message and false.
compareFiles(output, answer) ==
    IF StripWhitespace(output) = StripWhitespace(answer)
    THEN [message |-> "ok", ok |-> TRUE]
    ELSE [message |-> "expected, got", ok |-> FALSE]

\* A call of compareFiles(outputPath, answerPath); reading a file can fail.
CompareCall ==
    /\ \E readable \in BOOLEAN :
         cmpRes' = (IF ~readable THEN "error"
                    ELSE IF compareFiles(outFile, ansFile).ok THEN "ok" ELSE "differ")
    /\ cmpEdited' = FALSE
    /\ UNCHANGED <<outFile, ansFile>>
    /\ UNCHANGED outsideCompare

\* f with byte ch put in front of position p.
InsertAt(f, p, ch) == SubSeq(f, 1, p - 1) \o <<ch>> \o SubSeq(f, p, Len(f))

\* f without its byte at position p.
RemoveAt(f, p) == SubSeq(f, 1, p - 1) \o SubSeq(f, p + 1, Len(f))

\* A whitespace byte is inserted somewhere in one of the two files.
InsertWhitespace ==
    /\ \E which \in {"output", "answer"} : \E ch \in Whitespace :
         LET f == IF which = "output" THEN outFile ELSE ansFile
         IN  /\ Len(outFile) + Len(ansFile) < MaxFileBytes
             /\ \E p \in 1..(Len(f) + 1) :
                  IF which = "output"
                  THEN outFile' = InsertAt(f, p, ch) /\ UNCHANGED ansFile
                  ELSE ansFile' = InsertAt(f, p, ch) /\ UNCHANGED outFile
    /\ cmpEdited' = TRUE
    /\ UNCHANGED cmpRes
    /\ UNCHANGED outsideCompare

\* A whitespace byte is removed from one of the two files.
RemoveWhitespace ==
    /\ \E which \in {"output", "answer"} :
         LET f == IF which = "output" THEN outFile ELSE ansFile
         IN  \E p \in 1..Len(f) :
               /\ f[p] \in Whitespace
               /\ IF which = "output"
                  THEN outFile' = RemoveAt(f, p) /\ UNCHANGED ansFile
                  ELSE ansFile' = RemoveAt(f, p) /\ UNCHANGED outFile
    /\ cmpEdited' = TRUE
    /\ UNCHANGED cmpRes
    /\ UNCHANGED outsideCompare

\* An output file and an answer file, not yet compared.
CompareInitAt(o, a) ==
    /\ outFile = o
    /\ ansFile = a
    /\ cmpRes = "none"
    /\ cmpEdited = FALSE

CompareIdle == CompareInitAt(<<"a">>, <<"a">>)

(***************************************************************************)
(* Lookups of the cached stores and what their callers hold: Compiler     *)
(* with a JSON field (a byte slice), Setting with string fields.           *)
(***************************************************************************)
CompilerIDs == {1, 2}
SettingIDs == {1}
\* Contents a byte array or a string can have.
Contents == {1, 2}
\* Addresses of the byte arrays of the cache, one per compiler, and the
\* addresses make() can return to Clone.
CacheAddrs == {1, 2}
CloneAddrs == {3, 4}
Addrs == CacheAddrs \cup CloneAddrs

\* JSON.Clone: make a new array and copy the bytes into it.
JSONClone(hp, a, fresh) == [hp EXCEPT ![fresh] = hp[a]]

\* The addresses not allocated yet.
FreeAddrs == {a \in CloneAddrs : heap[a] = 0}

\* CompilerStore.Get(id): compiler.Clone() is returned.
CompilerStoreGet ==
    /\ FreeAddrs # {}
    /\ \E id \in CompilerIDs :
         LET fresh == CHOOSE a \in FreeAddrs : \A b \in FreeAddrs : a <= b
         IN  /\ heap' = JSONClone(heap, compilers[id], fresh)
             /\ given' = given \cup {[store |-> "compiler", id |-> id, addr |-> fresh, val |-> 0]}
    /\ UNCHANGED <<compilers, settings, loadedCfg, loadedVal>>
    /\ UNCHANGED outsideLookup

\* CompilerStore.All(): every compiler of the map is appended as it is, its
\* Config slice pointing at the array of the cache.
CompilerStoreAll ==
    /\ given' = given \cup {[store |-> "compiler", id |-> id, addr |-> compilers[id], val |-> 0] :
                            id \in CompilerIDs}
    /\ UNCHANGED <<heap, compilers, settings, loadedCfg, loadedVal>>
    /\ UNCHANGED outsideLookup

\* SettingStore.All(): every setting of the map is appended as it is; its
\* fields are an integer and strings, copied with the struct.
SettingStoreAll ==
    /\ given' = given \cup {[store |-> "setting", id |-> id, addr |-> 0, val |-> settings[id]] :
                            id \in SettingIDs}
    /\ UNCHANGED <<heap, compilers, settings, loadedCfg, loadedVal>>
    /\ UNCHANGED outsideLookup

\* A caller changes an object it was given: it overwrites the bytes of the
\* JSON field, or assigns another string to a field.
CallerChange ==
    /\ \E h \in given : \E c \in Contents :
         IF h.store = "compiler"
         THEN /\ heap[h.addr] # c
              /\ heap' = [heap EXCEPT ![h.addr] = c]
              /\ UNCHANGED given
         ELSE /\ h.val # c
              /\ given' = (given \ {h}) \cup {[h EXCEPT !.val = c]}
              /\ UNCHANGED heap
    /\ UNCHANGED <<compilers, settings, loadedCfg, loadedVal>>
    /\ UNCHANGED outsideLookup

\* The stores have loaded compilers with Configs cfg and settings with
\* Values val; no caller holds an object.
LookupInitAt(cfg, val) ==
    /\ heap = [a \in Addrs |-> IF a \in CacheAddrs THEN cfg[a] ELSE 0]
    /\ compilers = [id \in CompilerIDs |-> id]
    /\ settings = val
    /\ loadedCfg = cfg
    /\ loadedVal = val
    /\ given = {}

LookupIdle == LookupInitAt([id \in CompilerIDs |-> 1], [id \in SettingIDs |-> 1])

(***************************************************************************)
(* The scratch directory of a judge call and the deferred calls that run   *)
(* when the call returns or panics.                                        *)
(***************************************************************************)
Revisions == {"onJudgeSolution", "Execute"}
ExitKinds == {"nil", "error", "panic"}

\* The function leaves its body: by return nil, return err or a panic. The
\* deferred calls run next, in each of the three cases.
LeaveBody(kind) ==
    /\ spc' = "unwinding"
    /\ sexit' = kind

\* The handler is called: task config, solution, problem (and compiler) are
\* fetched; onJudgeSolution then defers the writing of the report.
ScratchStart ==
    /\ spc \in {"idle", "returned"}
    /\ made < MaxScratchDirs
    /\ tempDir' = 0
    /\ \E rev \in Revisions : \E fetched \in BOOLEAN :
         /\ srev' = rev
         /\ IF fetched
            THEN /\ spc' = "mktemp"
                 /\ sexit' = "none"
                 /\ deferred' = (IF rev = "onJudgeSolution" THEN <<"SetReport">> ELSE << >>)
            ELSE /\ LeaveBody("error")
                 /\ deferred' = << >>
    /\ UNCHANGED <<dirs, made, exits>>
    /\ UNCHANGED outsideScratch

\* tempDir, err := makeTempDir(); on success os.RemoveAll(tempDir) is
\* deferred.
ScratchMakeTempDir ==
    /\ spc = "mktemp"
    /\ \E ok \in BOOLEAN :
         IF ok
         THEN /\ made' = made + 1
              /\ tempDir' = made + 1
              /\ dirs' = dirs \cup {made + 1}
              /\ deferred' = Append(deferred, "RemoveAll")
              /\ spc' = (IF srev = "onJudgeSolution" THEN "download" ELSE "body")
              /\ UNCHANGED sexit
         ELSE /\ LeaveBody("error")
              /\ UNCHANGED <<made, tempDir, dirs, deferred>>
    /\ UNCHANGED <<srev, exits>>
    /\ UNCHANGED outsideScratch

\* onJudgeSolution downloads the problem file and defers its Close.
ScratchDownload ==
    /\ spc = "download"
    /\ \E res \in {"ok", "error", "panic"} :
         IF res = "ok"
         THEN /\ deferred' = Append(deferred, "Close")
              /\ spc' = "body"
              /\ UNCHANGED sexit
         ELSE /\ LeaveBody(res)
              /\ UNCHANGED deferred
    /\ UNCHANGED <<dirs, tempDir, srev, made, exits>>
    /\ UNCHANGED outsideScratch

\* The rest of the body (executeImpl in the later revision): it returns nil,
\* returns an error, or panics.
ScratchBody ==
    /\ spc = "body"
    /\ \E kind \in ExitKinds : LeaveBody(kind)
    /\ UNCHANGED <<dirs, tempDir, deferred, srev, made, exits>>
    /\ UNCHANGED outsideScratch

\* A variant in which the directory is removed by a statement at the end of
\* the body, which a return err or a panic does not reach.
RunDeferredAtEnd ==
    /\ spc = "unwinding"
    /\ deferred # << >>
    /\ deferred' = SubSeq(deferred, 1, Len(deferred) - 1)
    /\ dirs' = (IF deferred[Len(deferred)] = "RemoveAll" /\ sexit = "nil"
                THEN dirs \ {tempDir} ELSE dirs)
    /\ UNCHANGED <<tempDir, spc, sexit, srev, made, exits>>
    /\ UNCHANGED outsideScratch

\* The deferred call on top runs: os.RemoveAll(tempDir) removes the
\* directory, the others leave the disk alone.
RunDeferred ==
    /\ spc = "unwinding"
    /\ deferred # << >>
    /\ deferred' = SubSeq(deferred, 1, Len(deferred) - 1)
    /\ dirs' = (IF deferred[Len(deferred)] = "RemoveAll" THEN dirs \ {tempDir} ELSE dirs)
    /\ UNCHANGED <<tempDir, spc, sexit, srev, made, exits>>
    /\ UNCHANGED outsideScratch

\* Every deferred call has run: the call is over (the panic goes on to the
\* recover of the caller).
ScratchReturn ==
    /\ spc = "unwinding"
    /\ deferred = << >>
    /\ spc' = "returned"
    /\ exits' = (IF tempDir # 0 THEN exits \cup {sexit} ELSE exits)
    /\ UNCHANGED <<dirs, tempDir, deferred, sexit, srev, made>>
    /\ UNCHANGED outsideScratch

\* A worker that has judged nothing yet.
ScratchIdle ==
    /\ dirs = {}
    /\ tempDir = 0
    /\ deferred = << >>
    /\ spc = "idle"
    /\ sexit = "none"
    /\ srev = "onJudgeSolution"
    /\ made = 0
    /\ exits = {}

(***************************************************************************)
(* safeexec: the monitor loop of main and the sandboxed child.             *)
(***************************************************************************)
\* ctx->timeLimit and ctx->memoryLimit of the run.
TimeLimit == 1
MemoryLimit == 1
ExitStatuses == {0, 1}

NoStatus == [kind |-> "none", code |-> 0]
NoSandboxReport == [time |-> -1, memory |-> -1, exit_code |-> -2]

\* The child calls exit or returns from main.
ChildExit ==
    /\ child = "running"
    /\ \E c \in ExitStatuses : cstatus' = [kind |-> "exited", code |-> c]
    /\ child' = "zombie"
    /\ pendingKill' = FALSE
    /\ UNCHANGED <<stopReported, mpc, result, wstatus, elapsed, memory, currentMemory, samples, iterKills, sent, reportFile>>
    /\ UNCHANGED outsideSandbox

\* A SIGKILL sent by main acts, or the kernel kills the child (the memory.max
\* of its cgroup is reached).
ChildKilled ==
    /\ child \in {"running", "stopped"}
    /\ child' = "zombie"
    /\ cstatus' = [kind |-> "signaled", code |-> 0]
    /\ pendingKill' = FALSE
    /\ UNCHANGED <<stopReported, mpc, result, wstatus, elapsed, memory, currentMemory, samples, iterKills, sent, reportFile>>
    /\ UNCHANGED outsideSandbox

\* The child is stopped by a stop signal.
ChildStop ==
    /\ child = "running"
    /\ child' = "stopped"
    /\ stopReported' = FALSE
    /\ UNCHANGED <<cstatus, pendingKill, mpc, result, wstatus, elapsed, memory, currentMemory, samples, iterKills, sent, reportFile>>
    /\ UNCHANGED outsideSandbox

\* The stopped child is continued by SIGCONT.
ChildCont ==
    /\ child = "stopped"
    /\ child' = "running"
    /\ UNCHANGED <<cstatus, pendingKill, stopReported, mpc, result, wstatus, elapsed, memory, currentMemory, samples, iterKills, sent, reportFile>>
    /\ UNCHANGED outsideSandbox

\* waitpid(pid, &status, WUNTRACED | WNOHANG | __WALL): a zombie is reaped and
\* a stop not yet reported is reported, both with the pid as result; else 0.
\* With WNOHANG the call does not block and is not interrupted.
waitpid ==
    IF child = "zombie"
    THEN [result |-> 1, status |-> cstatus, child |-> "reaped", stopReported |-> stopReported]
    ELSE IF child = "stopped" /\ ~stopReported
    THEN [result |-> 1, status |-> [kind |-> "stopped", code |-> 0], child |-> child, stopReported |-> TRUE]
    ELSE [result |-> 0, status |-> wstatus, child |-> child, stopReported |-> stopReported]

\* kill(pid, SIGKILL) and the ensure after it: a process that is not reaped
\* takes the signal, a reaped one gives ESRCH, which is let pass.
Kill(why) ==
    IF child = "reaped"
    THEN /\ iterKills' = Append(iterKills, [why |-> why, errno |-> "ESRCH"])
         /\ sent' = sent \cup {[why |-> why, errno |-> "ESRCH"]}
         /\ UNCHANGED pendingKill
    ELSE /\ iterKills' = Append(iterKills, [why |-> why, errno |-> "none"])
         /\ sent' = sent \cup {[why |-> why, errno |-> "none"]}
         /\ pendingKill' = (child \in {"running", "stopped"})

\* A variant that keeps the latest sample.
LatestSample(m, s) == s

\* memory after a sample s: the larger of the two.
MaxSample(m, s) == IF s > m THEN s ELSE m

\* The head of an iteration: waitpid and clock_gettime.
MonitorWait ==
    /\ mpc = "wait"
    /\ LET w == waitpid
       IN  /\ result' = w.result
           /\ wstatus' = w.status
           /\ child' = w.child
           /\ stopReported' = w.stopReported
    /\ \E e \in elapsed..MaxClock : elapsed' = e
    /\ iterKills' = << >>
    /\ mpc' = "time"
    /\ UNCHANGED sent
    /\ UNCHANGED <<cstatus, pendingKill, memory, currentMemory, samples, reportFile>>
    /\ UNCHANGED outsideSandbox

\* if (result == 0 && getTimeDiff(currentTime, startTime) > ctx->timeLimit)
MonitorTimeCheck ==
    /\ mpc = "time"
    /\ IF result = 0 /\ elapsed > TimeLimit
       THEN Kill("time")
       ELSE UNCHANGED <<iterKills, sent, pendingKill>>
    /\ mpc' = "sample"
    /\ UNCHANGED <<child, cstatus, stopReported, result, wstatus, elapsed, memory, currentMemory, samples, reportFile>>
    /\ UNCHANGED outsideSandbox

\* readCgroupValue and the update of memory, usleep and the loop condition.
\* A cgroup file that cannot be read ends the runner with EXIT_FAILURE.
MonitorSample ==
    /\ mpc = "sample"
    /\ \/ /\ mpc' = "failed"
          /\ UNCHANGED <<pendingKill, memory, currentMemory, samples, iterKills, sent>>
       \/ \E s \in 0..MaxMemory :
            /\ currentMemory' = s
            /\ samples' = samples \cup {s}
            /\ memory' = MaxSample(memory, s)
            /\ IF s > memory /\ memory' > MemoryLimit
               THEN Kill("memory")
               ELSE UNCHANGED <<iterKills, sent, pendingKill>>
            /\ mpc' = (IF result = 0 THEN "wait" ELSE "after")
    /\ UNCHANGED <<child, cstatus, stopReported, result, wstatus, elapsed, reportFile>>
    /\ UNCHANGED outsideSandbox

\* After the loop: memory.current is read once more, exitCode is computed
\* and the report file is written.
MonitorReport ==
    /\ mpc = "after"
    /\ \/ /\ mpc' = "failed"
          /\ UNCHANGED <<currentMemory, reportFile>>
       \/ \E s \in 0..MaxMemory :
            /\ currentMemory' = s
            /\ LET exitCode == IF wstatus.kind = "exited" THEN wstatus.code ELSE -1
               IN  reportFile' = [time |-> elapsed, memory |-> memory, exit_code |-> exitCode]
            /\ mpc' = "reported"
    /\ UNCHANGED <<child, cstatus, pendingKill, stopReported, result, wstatus, elapsed, memory, samples, iterKills, sent>>
    /\ UNCHANGED outsideSandbox

\* The child has called execve and the monitor loop is about to start.
SandboxIdle ==
    /\ child = "running"
    /\ cstatus = NoStatus
    /\ pendingKill = FALSE
    /\ stopReported = FALSE
    /\ mpc = "wait"
    /\ result = 0
    /\ wstatus = NoStatus
    /\ elapsed = 0
    /\ memory = 0
    /\ currentMemory = 0
    /\ samples = {}
    /\ iterKills = << >>
    /\ sent = {}
    /\ reportFile = NoSandboxReport

(***************************************************************************)
(* Core.getRecursiveRoles on a graph of roles.                             *)
(***************************************************************************)
RoleIDs == {1, 2, 3}

\* The lists of at most n role IDs.
IDLists(n) == UNION {[1..k -> RoleIDs] : k \in 0..n}

\* The orders in which the elements of S can be appended.
Orders(S) == {q \in [1..Cardinality(S) -> S] : \A i, j \in 1..Cardinality(S) : q[i] = q[j] => i = j}

\* A variant that marks nothing before the loop.
MarkNone(ids) == {}

\* The first loop: every given ID is put into roles.
MarkGiven(ids) == {ids[k] : k \in 1..Len(ids)}

\* RoleEdges.FindByRole(roleID), as the set of the ChildIDs.
FindByRole(roleID) == {c \in RoleIDs : <<roleID, c>> \in roleEdges}

\* One iteration of `for len(stack) > 0`: the top of the stack is popped, its
\* edges are read and every child not in roles is put into roles and
\* appended to the stack, in the order of the edges.
ExpandRole ==
    /\ rpc = "loop"
    /\ stack # << >>
    /\ LET roleID == stack[Len(stack)]
           fresh == FindByRole(roleID) \ roles
       IN  /\ roles' = roles \cup fresh
           /\ \E q \in Orders(fresh) : stack' = SubSeq(stack, 1, Len(stack) - 1) \o q
           /\ expanded' = [expanded EXCEPT ![roleID] = @ + 1]
    /\ UNCHANGED <<roleEdges, givenIDs, rpc>>
    /\ UNCHANGED outsideRoles

\* The stack is empty: return roles, nil.
RolesReturn ==
    /\ rpc = "loop"
    /\ stack = << >>
    /\ rpc' = "returned"
    /\ UNCHANGED <<roleEdges, givenIDs, stack, roles, expanded>>
    /\ UNCHANGED outsideRoles

\* getRecursiveRoles(ids...) is called on the graph with edges g, and has
\* run its first loop.
RolesInitAt(g, ids) ==
    /\ roleEdges = g
    /\ givenIDs = ids
    /\ stack = ids
    /\ roles = MarkGiven(ids)
    /\ rpc = "loop"
    /\ expanded = [r \in RoleIDs |-> 0]

RolesIdle == RolesInitAt({}, << >>)

(***************************************************************************)
(* App.Start, App.Stop and the runManagerSync goroutines.                  *)
(***************************************************************************)
\* The change managers of the stores, in the order Start runs them.
Managers == {1, 2, 3}

\* Start makes the channels.
StartBegin ==
    /\ apc = "new"
    /\ closer' = "open"
    /\ stores' = 0
    /\ apc' = "spawn"
    /\ UNCHANGED <<waiter, received, startErr, gpc, initErr, synced>>
    /\ UNCHANGED outsideApp

\* runManagerSync(m) of Start: stores++ and the go statement.
StartSpawn ==
    /\ apc = "spawn"
    /\ stores' = stores + 1
    /\ gpc' = [gpc EXCEPT ![stores + 1] = "add"]
    /\ apc' = (IF stores + 1 = Cardinality(Managers) THEN "recv" ELSE "spawn")
    /\ UNCHANGED <<closer, waiter, received, startErr, initErr, synced>>
    /\ UNCHANGED outsideApp

\* a.waiter.Add(1), the first statement of the goroutine.
SyncAdd(g) ==
    /\ gpc[g] = "add"
    /\ waiter' = waiter + 1
    /\ gpc' = [gpc EXCEPT ![g] = "init"]
    /\ UNCHANGED <<apc, closer, stores, received, startErr, initErr, synced>>
    /\ UNCHANGED outsideApp

\* m.Init() returns nil or an error.
SyncInit(g) ==
    /\ gpc[g] = "init"
    /\ \E e \in {"nil", "error"} : initErr' = [initErr EXCEPT ![g] = e]
    /\ gpc' = [gpc EXCEPT ![g] = "send"]
    /\ UNCHANGED <<apc, closer, waiter, stores, received, startErr, synced>>
    /\ UNCHANGED outsideApp

\* errs <- m.Init() meets lastErr := <-errs of the receive loop.
StartReceive(g) ==
    /\ apc = "recv"
    /\ received < stores
    /\ gpc[g] = "send"
    /\ received' = received + 1
    /\ startErr' = (IF initErr[g] # "nil" THEN "error" ELSE startErr)
    /\ gpc' = [gpc EXCEPT ![g] = "select"]
    /\ UNCHANGED <<apc, closer, waiter, stores, initErr, synced>>
    /\ UNCHANGED outsideApp

\* The receive loop is over: Start returns nil, or calls Stop, which closes
\* a.closer.
StartFinish ==
    /\ apc = "recv"
    /\ received = stores
    /\ IF startErr # "nil"
       THEN closer' = "closed" /\ apc' = "stopInStart"
       ELSE apc' = "started" /\ UNCHANGED closer
    /\ UNCHANGED <<waiter, stores, received, startErr, gpc, initErr, synced>>
    /\ UNCHANGED outsideApp

\* The select of the goroutine takes the tick: m.Sync().
SyncTick(g) ==
    /\ gpc[g] = "select"
    /\ synced' = [synced EXCEPT ![g] = TRUE]
    /\ UNCHANGED <<apc, closer, waiter, stores, received, startErr, gpc, initErr>>
    /\ UNCHANGED outsideApp

\* The select of the goroutine takes the closed a.closer: it returns and the
\* deferred a.waiter.Done() runs.
SyncClose(g) ==
    /\ gpc[g] = "select"
    /\ closer = "closed"
    /\ gpc' = [gpc EXCEPT ![g] = "done"]
    /\ waiter' = waiter - 1
    /\ UNCHANGED <<apc, closer, stores, received, startErr, initErr, synced>>
    /\ UNCHANGED outsideApp

\* The caller of a Start that returned nil calls Stop: close(a.closer).
StopBegin ==
    /\ apc = "started"
    /\ closer' = "closed"
    /\ apc' = "stopping"
    /\ UNCHANGED <<waiter, stores, received, startErr, gpc, initErr, synced>>
    /\ UNCHANGED outsideApp

\* A variant of Stop that does not wait.
StopNoWait == TRUE

\* a.waiter.Wait() returns when the counter is zero.
StopWaitReady == waiter = 0

\* Stop returns, to its caller or to Start, which then returns err.
StopWait ==
    /\ apc \in {"stopping", "stopInStart"}
    /\ StopWaitReady
    /\ apc' = (IF apc = "stopping" THEN "stopped" ELSE "failed")
    /\ UNCHANGED <<closer, waiter, stores, received, startErr, gpc, initErr, synced>>
    /\ UNCHANGED outsideApp

\* An App as NewApp returns it.
AppIdle ==
    /\ apc = "new"
    /\ closer = "none"
    /\ waiter = 0
    /\ stores = 0
    /\ received = 0
    /\ startErr = "nil"
    /\ gpc = [g \in Managers |-> "none"]
    /\ initErr = [g \in Managers |-> "none"]
    /\ synced = [g \in Managers |-> FALSE]

(***************************************************************************)
(* judgeSolutionTask.compileSolution and the container of the compiler.    *)
(***************************************************************************)
\* compileSolution returns: a deferred container.Destroy() runs and removes
\* the container of the call, which is the one created last.
CompileReturnWith(how) ==
    /\ containers' = (IF kdefer THEN containers \ {kmade} ELSE containers)
    /\ kdefer' = FALSE
    /\ kpc' = "returned"
    /\ kexits' = kexits \cup {how}

\* compileSolution is called: GetConfig and factory.Create.
CompileCreate ==
    /\ kpc \in {"idle", "returned"}
    /\ kmade < MaxContainers
    /\ \E src \in BOOLEAN : hasSource' = src
    /\ \E res \in {"noconfig", "nocreate", "ok"} :
         IF res = "ok"
         THEN /\ kmade' = kmade + 1
              /\ containers' = containers \cup {kmade + 1}
              /\ kpc' = "created"
         ELSE /\ kpc' = "returned"
              /\ UNCHANGED <<kmade, containers>>
    /\ UNCHANGED <<kdefer, kexits>>
    /\ UNCHANGED outsideCompile

\* The source of the solution is copied into the upper directory of the
\* container when the compiler has a source path; then Destroy is deferred.
CompileCopy ==
    /\ kpc = "created"
    /\ \E ok \in BOOLEAN :
         IF ok \/ ~hasSource
         THEN /\ kdefer' = TRUE
              /\ kpc' = "copied"
              /\ UNCHANGED <<containers, kexits>>
         ELSE CompileReturnWith("nocopy")
    /\ UNCHANGED <<hasSource, kmade>>
    /\ UNCHANGED outsideCompile

\* container.Start()
CompileStart ==
    /\ kpc = "copied"
    /\ \E ok \in BOOLEAN :
         IF ok
         THEN kpc' = "started" /\ UNCHANGED <<containers, kdefer, kexits>>
         ELSE CompileReturnWith("nostart")
    /\ UNCHANGED <<hasSource, kmade>>
    /\ UNCHANGED outsideCompile

\* process.Wait() and the returns after it: Wait failed, the compiler left
\* with a non-zero exit code, or it compiled the solution.
CompileWait ==
    /\ kpc = "started"
    /\ \E how \in {"nowait", "failed", "ok"} : CompileReturnWith(how)
    /\ UNCHANGED <<hasSource, kmade>>
    /\ UNCHANGED outsideCompile

\* A task that has compiled nothing yet.
CompileIdle ==
    /\ containers = {}
    /\ kpc = "idle"
    /\ kdefer = FALSE
    /\ hasSource = FALSE
    /\ kmade = 0
    /\ kexits = {}

(***************************************************************************)
(* safeexec: the start-up of main and entrypoint around the two pipes.     *)
(***************************************************************************)
\* The steps of prepareUserNamespace and prepareCgroupNamespace, and the
\* steps of entrypoint between the two pipes, in the order of the code.
ParentSteps == <<"uid_map", "setgroups", "gid_map", "cgroup.procs", "memory.max", "memory.swap.max">>
ChildSteps == <<"cgroupns", "mount", "hostname", "chdir", "stdio">>

\* ensure() fails: exit(EXIT_FAILURE), and the kernel closes the descriptors
\* of the process.
EnsureFails(proc) ==
    /\ initWriters' = initWriters \ {proc}
    /\ finalWriters' = finalWriters \ {proc}

\* main after clone: close(initializePipe[0]), close(finalizePipe[1]).
ParentCloseEnds ==
    /\ ppc = "ends"
    /\ finalWriters' = finalWriters \ {"parent"}
    /\ ppc' = "prepare"
    /\ UNCHANGED <<epc, initWriters, pdone, cdone>>
    /\ UNCHANGED outsideStartup

\* The next write of prepareUserNamespace or prepareCgroupNamespace, under
\* ensure.
ParentPrepare ==
    /\ ppc = "prepare"
    /\ \E ok \in BOOLEAN :
         IF ok
         THEN /\ pdone' = Append(pdone, ParentSteps[Len(pdone) + 1])
              /\ ppc' = (IF Len(pdone) + 1 = Len(ParentSteps) THEN "closeInit" ELSE "prepare")
              /\ UNCHANGED <<initWriters, finalWriters>>
         ELSE /\ EnsureFails("parent")
              /\ ppc' = "exited"
              /\ UNCHANGED pdone
    /\ UNCHANGED <<epc, cdone>>
    /\ UNCHANGED outsideStartup

\* close(ctx->initializePipe[1])
ParentCloseInit ==
    /\ ppc = "closeInit"
    /\ initWriters' = initWriters \ {"parent"}
    /\ ppc' = "waitReady"
    /\ UNCHANGED <<epc, finalWriters, pdone, cdone>>
    /\ UNCHANGED outsideStartup

\* waitReady: read on finalizePipe returns 0 once no process holds its write
\* end; then clock_gettime gives startTime.
ParentWaitReady ==
    /\ ppc = "waitReady"
    /\ finalWriters = {}
    /\ ppc' = "timing"
    /\ UNCHANGED <<epc, initWriters, finalWriters, pdone, cdone>>
    /\ UNCHANGED outsideStartup

\* entrypoint: close(initializePipe[1]), close(finalizePipe[0]).
ChildCloseEnds ==
    /\ epc = "ends"
    /\ initWriters' = initWriters \ {"child"}
    /\ epc' = "waitInit"
    /\ UNCHANGED <<ppc, finalWriters, pdone, cdone>>
    /\ UNCHANGED outsideStartup

\* read on initializePipe returns 0: no process holds its write end.
InitPipeAtEOF == initWriters = {}

\* setupUserNamespace: the read returns.
ChildWaitInit ==
    /\ epc = "waitInit"
    /\ InitPipeAtEOF
    /\ epc' = "setup"
    /\ UNCHANGED <<ppc, initWriters, finalWriters, pdone, cdone>>
    /\ UNCHANGED outsideStartup

\* The next set-up step of entrypoint, under ensure.
ChildSetup ==
    /\ epc = "setup"
    /\ \E ok \in BOOLEAN :
         IF ok
         THEN /\ cdone' = Append(cdone, ChildSteps[Len(cdone) + 1])
              /\ epc' = (IF Len(cdone) + 1 = Len(ChildSteps) THEN "closeFinal" ELSE "setup")
              /\ UNCHANGED <<initWriters, finalWriters>>
         ELSE /\ EnsureFails("child")
              /\ epc' = "exited"
              /\ UNCHANGED cdone
    /\ UNCHANGED <<ppc, pdone>>
    /\ UNCHANGED outsideStartup

\* close(ctx->finalizePipe[1])
ChildCloseFinal ==
    /\ epc = "closeFinal"
    /\ finalWriters' = finalWriters \ {"child"}
    /\ epc' = "exec"
    /\ UNCHANGED <<ppc, initWriters, pdone, cdone>>
    /\ UNCHANGED outsideStartup

\* execvpe: the target runs, or the call fails and entrypoint returns.
ChildExec ==
    /\ epc = "exec"
    /\ \E ok \in BOOLEAN : epc' = (IF ok THEN "target" ELSE "exited")
    /\ UNCHANGED <<ppc, initWriters, finalWriters, pdone, cdone>>
    /\ UNCHANGED outsideStartup

\* clone has returned in both processes.
StartupIdle ==
    /\ ppc = "ends"
    /\ epc = "ends"
    /\ initWriters = {"parent", "child"}
    /\ finalWriters = {"parent", "child"}
    /\ pdone = << >>
    /\ cdone = << >>

(***************************************************************************)
(* One models.Task object and its JSON accessors. A value is a JSON object *)
(* with one field; raw JSON is the set of its key/value pairs, empty for a *)
(* nil column.                                                             *)
(***************************************************************************)
ConfigKeys == {"solution_id"}
StateKeys == {"stage"}
ConfigValues == [ConfigKeys -> 1..3]
StateValues == [StateKeys -> 1..3]
\* No value yet, and a scan that returned an error.
NoValue == [none |-> 0]
ScanFailed == [error |-> 0]

\* json.Marshal of an object: its fields under their keys.
Marshal(v) == {<<k, v[k]>> : k \in DOMAIN v}

\* json.Unmarshal into a struct with the given fields: empty input is an
\* error, unknown keys are ignored and absent fields keep the zero value.
Unmarshal(raw, keys) ==
    IF raw = {} THEN ScanFailed
    ELSE [k \in keys |->
            IF \E p \in raw : p[1] = k
            THEN (CHOOSE p \in raw : p[1] = k)[2]
            ELSE 0]

TaskSetConfig(c) ==
    /\ taskConfig' = Marshal(c)
    /\ lastConfig' = c
    /\ tlast' = "SetConfig"
    /\ UNCHANGED <<taskState, gotConfig, gotState, lastState>>
    /\ UNCHANGED outsideObject

\* SetState assigns the marshalled state to o.Config.
TaskSetState(s) ==
    /\ taskConfig' = Marshal(s)
    /\ lastState' = s
    /\ tlast' = "SetState"
    /\ UNCHANGED <<taskState, gotConfig, gotState, lastConfig>>
    /\ UNCHANGED outsideObject

TaskScanConfig ==
    /\ gotConfig' = Unmarshal(taskConfig, ConfigKeys)
    /\ tlast' = "ScanConfig"
    /\ UNCHANGED <<taskConfig, taskState, gotState, lastConfig, lastState>>
    /\ UNCHANGED outsideObject

\* ScanState unmarshals o.Config.
TaskScanState ==
    /\ gotState' = Unmarshal(taskConfig, StateKeys)
    /\ tlast' = "ScanState"
    /\ UNCHANGED <<taskConfig, taskState, gotConfig, lastConfig, lastState>>
    /\ UNCHANGED outsideObject

ObjectIdle ==
    /\ taskConfig = {}
    /\ taskState = {}
    /\ gotConfig = NoValue
    /\ gotState = NoValue
    /\ lastConfig = NoValue
    /\ lastState = NoValue
    /\ tlast = "new"

(***************************************************************************)
(* One ChangeManager of this process, the goroutine that calls Sync every  *)
(* second, callers of Change, and another process that writes to the same  *)
(* change table. LOCK TABLE takes the table's exclusive lock until the     *)
(* transaction ends, and a SELECT of another session waits for it.         *)
(***************************************************************************)
Changers == {1, 2}

\* SELECT ... WHERE change_id > $1 ORDER BY change_id
ChangesAfter(table, id) == SortedSeq({r \in table : r > id})

\* for rows.Next() { m.applyChange(change) }: the value of lastChangeID after.
LastAfter(last, rws) == IF rws = << >> THEN last ELSE rws[Len(rws)]

\* Sync: m.mutex.Lock(), and the query is sent with the current lastChangeID.
ManagerSyncLock ==
    /\ syncPc = "idle"
    /\ managerMutex = "free"
    /\ managerMutex' = "sync"
    /\ syncArg' = lastChangeID
    /\ syncPc' = "locked"
    /\ UNCHANGED <<changeTable, changeSeq, tableLock, txChange, lastChangeID, applied, syncRows, chPc>>
    /\ UNCHANGED outsideManager

\* The query of Sync runs once no transaction holds the table lock.
ManagerSyncQuery ==
    /\ syncPc = "locked"
    /\ tableLock = 0
    /\ syncRows' = ChangesAfter(changeTable, syncArg)
    /\ syncPc' = "queried"
    /\ UNCHANGED <<changeTable, changeSeq, tableLock, txChange, managerMutex, lastChangeID, applied, syncArg, chPc>>
    /\ UNCHANGED outsideManager

\* Sync applies the rows in order and returns; the deferred Unlock runs.
ManagerSyncApply ==
    /\ syncPc = "queried"
    /\ applied' = applied \o syncRows
    /\ lastChangeID' = LastAfter(lastChangeID, syncRows)
    /\ managerMutex' = "free"
    /\ syncRows' = << >>
    /\ syncPc' = "idle"
    /\ UNCHANGED <<changeTable, changeSeq, tableLock, txChange, syncArg, chPc>>
    /\ UNCHANGED outsideManager

\* Change: Begin, then ChangeTx calls LockTx, which waits for the table lock.
ChangeLockTx(c) ==
    /\ chPc[c] = "idle"
    /\ changeSeq < MaxChanges
    /\ tableLock = 0
    /\ tableLock' = c
    /\ chPc' = [chPc EXCEPT ![c] = "locked"]
    /\ UNCHANGED <<changeTable, changeSeq, txChange, managerMutex, lastChangeID, applied, syncPc, syncRows, syncArg>>
    /\ UNCHANGED outsideManager

\* ChangeTx calls SyncTx: it waits for the mutex, queries inside the
\* transaction, applies the rows and unlocks.
ChangeSyncTx(c) ==
    /\ chPc[c] = "locked"
    /\ managerMutex = "free"
    /\ LET rws == ChangesAfter(changeTable, lastChangeID)
       IN  /\ applied' = applied \o rws
           /\ lastChangeID' = LastAfter(lastChangeID, rws)
    /\ chPc' = [chPc EXCEPT ![c] = "synced"]
    /\ UNCHANGED <<changeTable, changeSeq, tableLock, txChange, managerMutex, syncPc, syncRows, syncArg>>
    /\ UNCHANGED outsideManager

\* createChangeTx inserts the row inside the transaction.
ChangeCreate(c) ==
    /\ chPc[c] = "synced"
    /\ changeSeq' = changeSeq + 1
    /\ txChange' = [txChange EXCEPT ![c] = changeSeq + 1]
    /\ chPc' = [chPc EXCEPT ![c] = "created"]
    /\ UNCHANGED <<changeTable, tableLock, managerMutex, lastChangeID, applied, syncPc, syncRows, syncArg>>
    /\ UNCHANGED outsideManager

\* m.applyChange(change) at the end of ChangeTx, outside the mutex.
ChangeApply(c) ==
    /\ chPc[c] = "created"
    /\ applied' = Append(applied, txChange[c])
    /\ lastChangeID' = txChange[c]
    /\ chPc' = [chPc EXCEPT ![c] = "returned"]
    /\ UNCHANGED <<changeTable, changeSeq, tableLock, txChange, managerMutex, syncPc, syncRows, syncArg>>
    /\ UNCHANGED outsideManager

\* The transaction ends: tx.Commit() succeeds, or it fails, or the caller of
\* ChangeTx rolls back. The table lock is released with the transaction.
ChangeFinish(c, how) ==
    /\ chPc[c] = "returned"
    /\ changeTable' = IF how = "commit" THEN changeTable \cup {txChange[c]} ELSE changeTable
    /\ txChange' = [txChange EXCEPT ![c] = 0]
    /\ tableLock' = 0
    /\ chPc' = [chPc EXCEPT ![c] = "idle"]
    /\ UNCHANGED <<changeSeq, managerMutex, lastChangeID, applied, syncPc, syncRows, syncArg>>
    /\ UNCHANGED outsideManager

\* A manager of another process commits a change of its own.
OtherProcessChange ==
    /\ tableLock = 0
    /\ changeSeq < MaxChanges
    /\ changeSeq' = changeSeq + 1
    /\ changeTable' = changeTable \cup {changeSeq + 1}
    /\ UNCHANGED <<tableLock, txChange, managerMutex, lastChangeID, applied, syncPc, syncRows, syncArg, chPc>>
    /\ UNCHANGED outsideManager

ManagerIdle ==
    /\ changeTable = {}
    /\ changeSeq = 0
    /\ tableLock = 0
    /\ txChange = [c \in Changers |-> 0]
    /\ managerMutex = "free"
    /\ lastChangeID = 0
    /\ applied = << >>
    /\ syncPc = "idle"
    /\ syncRows = << >>
    /\ syncArg = 0
    /\ chPc = [c \in Changers |-> "idle"]

(***************************************************************************)
(* ContestStandingsManager.BuildStandings called by concurrent requests.   *)
(* A build yields standings named after the entry or call they were built  *)
(* for, or an error.                                                       *)
(***************************************************************************)
StandingsCallers == {1, 2}
CacheKeys == {1, 2}
\* time.Since(cache.Time) < 15*time.Second, scaled to the model's clock.
CacheSeconds == 1
NoStandings == [standings |-> 0, error |-> FALSE]

\* buildStandings: what a build started for entry e returns.
BuildOutcome(e, ok) == IF ok THEN [standings |-> e, error |-> FALSE] ELSE [standings |-> 0, error |-> TRUE]

\* A variant in which a caller does not wait for an unfinished entry.
CacheDecisionNoWait(e) ==
    IF e = 0 THEN "build"
    ELSE IF cacheEntries[e].done /\ ~cacheEntries[e].error /\ bsNow - cacheEntries[e].time < CacheSeconds
         THEN "hit"
         ELSE "build"

\* cache, ok := m.cache[key] and the select on cache.Done.
CacheDecision(e) ==
    IF e = 0 THEN "build"
    ELSE IF cacheEntries[e].done
         THEN IF ~cacheEntries[e].error /\ bsNow - cacheEntries[e].time < CacheSeconds
              THEN "hit"
              ELSE "build"
         ELSE "wait"

\* The setting is read and the key computed; with the cache off the caller
\* builds on its own, otherwise it goes for the mutex.
BuildStandingsBegin(c, k, useCache) ==
    /\ bsPc[c] = "idle"
    /\ Len(cacheEntries) + Cardinality({d \in StandingsCallers : bsPc[d] \in {"lock", "locked"}}) < MaxBuilds
    /\ bsKey' = [bsKey EXCEPT ![c] = k]
    /\ bsPc' = [bsPc EXCEPT ![c] = IF useCache THEN "lock" ELSE "direct"]
    /\ bsEntry' = [bsEntry EXCEPT ![c] = 0]
    /\ UNCHANGED <<standingsCache, cacheEntries, cacheMutex, bsResult, bsHow, bsNow>>
    /\ UNCHANGED outsideStandings

\* return m.buildStandings(ctx, options)
BuildDirect(c, ok) ==
    /\ bsPc[c] = "direct"
    /\ bsResult' = [bsResult EXCEPT ![c] = BuildOutcome(0, ok)]
    /\ bsHow' = [bsHow EXCEPT ![c] = "direct"]
    /\ bsPc' = [bsPc EXCEPT ![c] = "idle"]
    /\ UNCHANGED <<standingsCache, cacheEntries, cacheMutex, bsKey, bsEntry, bsNow>>
    /\ UNCHANGED outsideStandings

\* m.mutex.Lock()
CacheLock(c) ==
    /\ bsPc[c] = "lock"
    /\ cacheMutex = 0
    /\ cacheMutex' = c
    /\ bsPc' = [bsPc EXCEPT ![c] = "locked"]
    /\ UNCHANGED <<standingsCache, cacheEntries, bsKey, bsEntry, bsResult, bsHow, bsNow>>
    /\ UNCHANGED outsideStandings

\* The lookup under the mutex, up to the Unlock of the path taken.
CacheLookup(c) ==
    /\ bsPc[c] = "locked"
    /\ cacheMutex = c
    /\ LET e == standingsCache[bsKey[c]]
           decision == CacheDecision(e)
       IN  /\ decision = "hit" =>
                /\ bsResult' = [bsResult EXCEPT ![c] = [standings |-> cacheEntries[e].standings, error |-> FALSE]]
                /\ bsHow' = [bsHow EXCEPT ![c] = "hit"]
                /\ bsPc' = [bsPc EXCEPT ![c] = "idle"]
                /\ UNCHANGED <<standingsCache, cacheEntries, bsEntry>>
           /\ decision = "wait" =>
                /\ bsEntry' = [bsEntry EXCEPT ![c] = e]
                /\ bsPc' = [bsPc EXCEPT ![c] = "waiting"]
                /\ UNCHANGED <<standingsCache, cacheEntries, bsResult, bsHow>>
           /\ decision = "build" =>
                /\ cacheEntries' = Append(cacheEntries, [done |-> FALSE, time |-> bsNow, standings |-> 0, error |-> FALSE])
                /\ standingsCache' = [standingsCache EXCEPT ![bsKey[c]] = Len(cacheEntries) + 1]
                /\ bsEntry' = [bsEntry EXCEPT ![c] = Len(cacheEntries) + 1]
                /\ bsPc' = [bsPc EXCEPT ![c] = "building"]
                /\ UNCHANGED <<bsResult, bsHow>>
    /\ cacheMutex' = 0
    /\ UNCHANGED <<bsKey, bsNow>>
    /\ UNCHANGED outsideStandings

\* buildStandings returns, the entry is filled, the call returns and the
\* deferred close(done) runs.
BuildFinish(c, ok) ==
    /\ bsPc[c] = "building"
    /\ LET out == BuildOutcome(bsEntry[c], ok)
       IN  /\ cacheEntries' = [cacheEntries EXCEPT ![bsEntry[c]] =
                                  [@ EXCEPT !.done = TRUE, !.standings = out.standings, !.error = out.error]]
           /\ bsResult' = [bsResult EXCEPT ![c] = out]
    /\ bsHow' = [bsHow EXCEPT ![c] = "built"]
    /\ bsPc' = [bsPc EXCEPT ![c] = "idle"]
    /\ UNCHANGED <<standingsCache, cacheMutex, bsKey, bsEntry, bsNow>>
    /\ UNCHANGED outsideStandings

\* <-cache.Done; return cache.Standings, cache.Error
WaitDone(c) ==
    /\ bsPc[c] = "waiting"
    /\ cacheEntries[bsEntry[c]].done
    /\ bsResult' = [bsResult EXCEPT ![c] =
                      [standings |-> cacheEntries[bsEntry[c]].standings, error |-> cacheEntries[bsEntry[c]].error]]
    /\ bsHow' = [bsHow EXCEPT ![c] = "waited"]
    /\ bsPc' = [bsPc EXCEPT ![c] = "idle"]
    /\ UNCHANGED <<standingsCache, cacheEntries, cacheMutex, bsKey, bsEntry, bsNow>>
    /\ UNCHANGED outsideStandings

\* A second passes.
StandingsTick ==
    /\ bsNow < MaxStandingsClock
    /\ bsNow' = bsNow + 1
    /\ UNCHANGED <<standingsCache, cacheEntries, cacheMutex, bsPc, bsKey, bsEntry, bsResult, bsHow>>
    /\ UNCHANGED outsideStandings

StandingsIdle ==
    /\ standingsCache = [k \in CacheKeys |-> 0]
    /\ cacheEntries = << >>
    /\ cacheMutex = 0
    /\ bsPc = [c \in StandingsCallers |-> "idle"]
    /\ bsKey = [c \in StandingsCallers |-> 1]
    /\ bsEntry = [c \in StandingsCallers |-> 0]
    /\ bsResult = [c \in StandingsCallers |-> NoStandings]
    /\ bsHow = [c \in StandingsCallers |-> "none"]
    /\ bsNow = 0

vars == <<cvars, svars, tvars, jvars, nvars, fvars, hvars, dvars, bvars, rvars, avars, kvars, uvars, ovars, gvars, wvars>>

\* The consumer of the harness starts at ID 1 (as in TestEventConsumer) or
\* at a later ID.
TasksIdle == TasksInitAt([v \in Invokers |-> "p1"])

ConsumerInit == (\E b \in 1..2 : ConsumerInitAt(b)) /\ StoreInit /\ StandingsIdle /\ ManagerIdle /\ ObjectIdle /\ StartupIdle /\ CompileIdle /\ AppIdle /\ RolesIdle /\ SandboxIdle /\ ScratchIdle /\ LookupIdle /\ CompareIdle /\ SessionIdle /\ TasksIdle /\ JudgeIdle

Init == ConsumerInitAt(1) /\ StoreInit /\ StandingsIdle /\ ManagerIdle /\ ObjectIdle /\ StartupIdle /\ CompileIdle /\ AppIdle /\ RolesIdle /\ SandboxIdle /\ ScratchIdle /\ LookupIdle /\ CompareIdle /\ SessionIdle /\ TasksIdle /\ JudgeIdle

ConsumerNext ==
    \/ CommitEvent
    \/ \E c \in Callers : ConsumeBegin(c)
    \/ \E c \in Callers : ConsumeDeliver(c)
    \/ \E c \in Callers : ConsumeAbort(c)
    \/ \E c \in Callers : ConsumeEnd(c)

\* Writers and callers of one consumer, in any interleaving.
SpecConsumer == ConsumerInit /\ [][ConsumerNext]_vars

StoreNext ==
    \/ \E w \in Writers : WriterCreate(w)
    \/ \E w \in Writers : WriterUpdate(w)
    \/ \E w \in Writers : WriterDelete(w)
    \/ \E w \in Writers : WriterNoRows(w)
    \/ \E w \in Writers : WriterCommit(w)
    \/ \E w \in Writers : WriterRollback(w)
    \/ InitTx
    \/ SyncTx

\* Writer transactions on one table and a replica that initialises and syncs.
SpecStore == Init /\ [][StoreNext]_vars

TasksInit == ConsumerInitAt(1) /\ StoreInit /\ StandingsIdle /\ ManagerIdle /\ ObjectIdle /\ StartupIdle /\ CompileIdle /\ AppIdle /\ RolesIdle /\ SandboxIdle /\ ScratchIdle /\ LookupIdle /\ CompareIdle /\ SessionIdle /\ JudgeIdle /\ \E po \in Placements : TasksInitAt(po)

TasksNext ==
    \/ CreateTask
    \/ \E w \in Invokers : PopQueuedNoRows(w)
    \/ \E w \in Invokers : PopQueuedSelect(w)
    \/ \E w \in Invokers : PopQueuedCommit(w)
    \/ \E w \in Invokers : HeartbeatPing(w)
    \/ \E w \in Invokers : HeartbeatExpired(w)
    \/ \E w \in Invokers : onTaskReturn(w)
    \/ \E w \in Invokers : FinishTask(w)
    \/ \E w \in Invokers : FinishTaskLate(w)
    \/ \E w \in Invokers : WorkerCrash(w)
    \/ Tick

\* The API, the invoker workers and the clock, in any interleaving.
SpecTasks == TasksInit /\ [][TasksNext]_vars

JudgeInit == ConsumerInitAt(1) /\ StoreInit /\ StandingsIdle /\ ManagerIdle /\ ObjectIdle /\ StartupIdle /\ CompileIdle /\ AppIdle /\ RolesIdle /\ SandboxIdle /\ ScratchIdle /\ LookupIdle /\ CompareIdle /\ SessionIdle /\ TasksIdle /\ \E p \in Packages : JudgeInitAt(p)

JudgeNext ==
    \/ JudgeStart
    \/ JudgeCompile
    \/ JudgeReadProblem
    \/ RunTest
    \/ JudgeFinish
    \/ executeImpl
    \/ Rejudge

\* One judging worker and the API, in any interleaving.
SpecJudge == JudgeInit /\ [][JudgeNext]_vars

SessionInit == ConsumerInitAt(1) /\ StoreInit /\ StandingsIdle /\ ManagerIdle /\ ObjectIdle /\ StartupIdle /\ CompileIdle /\ AppIdle /\ RolesIdle /\ SandboxIdle /\ ScratchIdle /\ LookupIdle /\ CompareIdle /\ TasksIdle /\ JudgeIdle /\ SessionIdle

SessionNext ==
    \/ SessionCreate
    \/ SessionUpdate
    \/ SessionDeleteTx
    \/ SessionSync

\* The writers of the session table and one session store.
SpecSession == SessionInit /\ [][SessionNext]_vars

CompareInit == ConsumerInitAt(1) /\ StoreInit /\ StandingsIdle /\ ManagerIdle /\ ObjectIdle /\ StartupIdle /\ CompileIdle /\ AppIdle /\ RolesIdle /\ SandboxIdle /\ ScratchIdle /\ LookupIdle /\ SessionIdle /\ TasksIdle /\ JudgeIdle /\ \E o \in Files(MaxFileBytes) : \E a \in Files(MaxFileBytes - Len(o)) : CompareInitAt(o, a)

CompareNext ==
    \/ CompareCall
    \/ InsertWhitespace
    \/ RemoveWhitespace

\* Any two files, compared and edited in their whitespace in any order.
SpecCompare == CompareInit /\ [][CompareNext]_vars

LookupInit == ConsumerInitAt(1) /\ StoreInit /\ StandingsIdle /\ ManagerIdle /\ ObjectIdle /\ StartupIdle /\ CompileIdle /\ AppIdle /\ RolesIdle /\ SandboxIdle /\ ScratchIdle /\ CompareIdle /\ SessionIdle /\ TasksIdle /\ JudgeIdle /\ \E cfg \in [CompilerIDs -> Contents] : \E val \in [SettingIDs -> Contents] : LookupInitAt(cfg, val)

LookupNext ==
    \/ CompilerStoreGet
    \/ CompilerStoreAll
    \/ SettingStoreAll
    \/ CallerChange

\* Callers that look objects up and change what they were given.
SpecLookup == LookupInit /\ [][LookupNext]_vars

ScratchInit == ConsumerInitAt(1) /\ StoreInit /\ StandingsIdle /\ ManagerIdle /\ ObjectIdle /\ StartupIdle /\ CompileIdle /\ AppIdle /\ RolesIdle /\ SandboxIdle /\ LookupIdle /\ CompareIdle /\ SessionIdle /\ TasksIdle /\ JudgeIdle /\ ScratchIdle

ScratchNext ==
    \/ ScratchStart
    \/ ScratchMakeTempDir
    \/ ScratchDownload
    \/ ScratchBody
    \/ RunDeferred
    \/ ScratchReturn

\* One worker that runs judge calls one after another.
SpecScratch == ScratchInit /\ [][ScratchNext]_vars

SandboxInit == ConsumerInitAt(1) /\ StoreInit /\ StandingsIdle /\ ManagerIdle /\ ObjectIdle /\ StartupIdle /\ CompileIdle /\ AppIdle /\ RolesIdle /\ ScratchIdle /\ LookupIdle /\ CompareIdle /\ SessionIdle /\ TasksIdle /\ JudgeIdle /\ SandboxIdle

SandboxNext ==
    \/ ChildExit
    \/ ChildKilled
    \/ ChildStop
    \/ ChildCont
    \/ MonitorWait
    \/ MonitorTimeCheck
    \/ MonitorSample
    \/ MonitorReport

\* The runner and its child, in any interleaving.
SpecSandbox == SandboxInit /\ [][SandboxNext]_vars

RolesInit == ConsumerInitAt(1) /\ StoreInit /\ StandingsIdle /\ ManagerIdle /\ ObjectIdle /\ StartupIdle /\ CompileIdle /\ AppIdle /\ SandboxIdle /\ ScratchIdle /\ LookupIdle /\ CompareIdle /\ SessionIdle /\ TasksIdle /\ JudgeIdle /\ \E g \in SUBSET (RoleIDs \X RoleIDs) : \E ids \in IDLists(MaxGivenIDs) : RolesInitAt(g, ids)

RolesNext ==
    \/ ExpandRole
    \/ RolesReturn

\* One call of getRecursiveRoles, which goes on as long as it can.
SpecRoles == RolesInit /\ [][RolesNext]_vars /\ WF_vars(RolesNext)

AppInit == ConsumerInitAt(1) /\ StoreInit /\ StandingsIdle /\ ManagerIdle /\ ObjectIdle /\ StartupIdle /\ CompileIdle /\ RolesIdle /\ SandboxIdle /\ ScratchIdle /\ LookupIdle /\ CompareIdle /\ SessionIdle /\ TasksIdle /\ JudgeIdle /\ AppIdle

AppNext ==
    \/ StartBegin
    \/ StartSpawn
    \/ \E g \in Managers : SyncAdd(g)
    \/ \E g \in Managers : SyncInit(g)
    \/ \E g \in Managers : StartReceive(g)
    \/ StartFinish
    \/ \E g \in Managers : SyncTick(g)
    \/ \E g \in Managers : SyncClose(g)
    \/ StopBegin
    \/ StopWait

\* One caller that starts the App and stops it, and the goroutines of Start.
SpecApp == AppInit /\ [][AppNext]_vars

CompileInit == ConsumerInitAt(1) /\ StoreInit /\ StandingsIdle /\ ManagerIdle /\ ObjectIdle /\ StartupIdle /\ AppIdle /\ RolesIdle /\ SandboxIdle /\ ScratchIdle /\ LookupIdle /\ CompareIdle /\ SessionIdle /\ TasksIdle /\ JudgeIdle /\ CompileIdle

CompileNext ==
    \/ CompileCreate
    \/ CompileCopy
    \/ CompileStart
    \/ CompileWait

\* One worker that compiles solutions one after another.
SpecCompile == CompileInit /\ [][CompileNext]_vars

StartupInit == ConsumerInitAt(1) /\ StoreInit /\ StandingsIdle /\ ManagerIdle /\ ObjectIdle /\ CompileIdle /\ AppIdle /\ RolesIdle /\ SandboxIdle /\ ScratchIdle /\ LookupIdle /\ CompareIdle /\ SessionIdle /\ TasksIdle /\ JudgeIdle /\ StartupIdle

StartupNext ==
    \/ ParentCloseEnds
    \/ ParentPrepare
    \/ ParentCloseInit
    \/ ParentWaitReady
    \/ ChildCloseEnds
    \/ ChildWaitInit
    \/ ChildSetup
    \/ ChildCloseFinal
    \/ ChildExec

\* main and entrypoint after clone, in any interleaving.
SpecStartup == StartupInit /\ [][StartupNext]_vars

ObjectInit == ConsumerInitAt(1) /\ StoreInit /\ StandingsIdle /\ ManagerIdle /\ CompileIdle /\ AppIdle /\ RolesIdle /\ SandboxIdle /\ ScratchIdle /\ LookupIdle /\ CompareIdle /\ SessionIdle /\ TasksIdle /\ JudgeIdle /\ StartupIdle /\ ObjectIdle

ObjectNext ==
    \/ \E c \in ConfigValues : TaskSetConfig(c)
    \/ \E s \in StateValues : TaskSetState(s)
    \/ TaskScanConfig
    \/ TaskScanState

\* One task object on which the accessors are called in any order.
SpecObject == ObjectInit /\ [][ObjectNext]_vars

ManagerInit == ConsumerInitAt(1) /\ StoreInit /\ StandingsIdle /\ CompileIdle /\ AppIdle /\ RolesIdle /\ SandboxIdle /\ ScratchIdle /\ LookupIdle /\ CompareIdle /\ SessionIdle /\ TasksIdle /\ JudgeIdle /\ StartupIdle /\ ObjectIdle /\ ManagerIdle

ManagerNext ==
    \/ ManagerSyncLock
    \/ ManagerSyncQuery
    \/ ManagerSyncApply
    \/ \E c \in Changers : ChangeLockTx(c)
    \/ \E c \in Changers : ChangeSyncTx(c)
    \/ \E c \in Changers : ChangeCreate(c)
    \/ \E c \in Changers : ChangeApply(c)
    \/ \E c \in Changers, how \in {"commit", "commitFailed", "rollback"} : ChangeFinish(c, how)
    \/ OtherProcessChange

\* One manager with its Sync goroutine, two callers of Change and another
\* process writing to the same table.
SpecManager == ManagerInit /\ [][ManagerNext]_vars

StandingsInit == ConsumerInitAt(1) /\ StoreInit /\ CompileIdle /\ AppIdle /\ RolesIdle /\ SandboxIdle /\ ScratchIdle /\ LookupIdle /\ CompareIdle /\ SessionIdle /\ TasksIdle /\ JudgeIdle /\ StartupIdle /\ ObjectIdle /\ ManagerIdle /\ StandingsIdle

StandingsNext ==
    \/ \E c \in StandingsCallers, k \in CacheKeys, useCache \in BOOLEAN : BuildStandingsBegin(c, k, useCache)
    \/ \E c \in StandingsCallers, ok \in BOOLEAN : BuildDirect(c, ok)
    \/ \E c \in StandingsCallers : CacheLock(c)
    \/ \E c \in StandingsCallers : CacheLookup(c)
    \/ \E c \in StandingsCallers, ok \in BOOLEAN : BuildFinish(c, ok)
    \/ \E c \in StandingsCallers : WaitDone(c)
    \/ StandingsTick

\* Two requests calling BuildStandings again and again while time passes.
SpecStandings == StandingsInit /\ [][StandingsNext]_vars

(***************************************************************************)
(* Properties of the event consumer.                                       *)
(***************************************************************************)
\* How many times fn returned nil for event a; an ID the table never
\* allocates is never delivered.
Count(a) == IF a \in EventIDs THEN count[a] ELSE 0

\* The IDs at or above the starting ID for which fn has not returned nil;
\* MaxEventID + 1 stands for all the IDs the table has not allocated yet.
Undelivered == {a \in startID..(MaxEventID + 1) : Count(a) = 0}

MinOf(S) == CHOOSE m \in S : \A x \in S : m <= x

\* C1 (gap recovery): an event that becomes visible after higher IDs were
\* delivered is not skipped. As long as its range was not dropped by the gap
\* window, an undelivered ID stays inside the ranges and BeginEventID() does
\* not exceed it; a ConsumeEvents call that returns nil has delivered every
\* event its reader returned, each exactly once over the consumer's life.
C1_GapRecovery ==
    /\ \A a \in Undelivered \ lost : InRanges(ranges, a) /\ BeginEventID <= a
    /\ \A a \in EventIDs : Count(a) <= 1
    /\ stepInfo.kind = "end" => \A a \in loaded : Count(a) = 1

\* A call returned nil having delivered an event whose ID is below one that
\* an earlier call delivered, with no range ever dropped.
C1_Witness ==
    /\ stepInfo.kind = "end"
    /\ lost = {}
    /\ \E a \in late : a \in loaded /\ Count(a) = 1

\* C2 (at most once): no event ID is passed to fn with a nil result more than
\* once, whichever goroutines issue the ConsumeEvents calls.
C2_AtMostOnce == \A a \in EventIDs : Count(a) <= 1

\* Both callers have delivered events, and a call that has just begun got a
\* reader that returns a new event but none of the delivered ones.
C2_Witness ==
    /\ deliverers = Callers
    /\ stepInfo.kind = "begin"
    /\ loaded # {}
    /\ \A a \in loaded : Count(a) = 0
    /\ \E a \in Committed : Count(a) = 1

\* C3 (checkpoint): after a ConsumeEvents call that returned nil, and with no
\* range dropped by the window, BeginEventID() is the smallest ID at or above
\* the starting ID that has not been delivered successfully.
C3_BeginIsSmallestUndelivered ==
    (mutex = 0 /\ lastRes = "nil" /\ lost = {}) => BeginEventID = MinOf(Undelivered)

\* A nil return after which the checkpoint stands at a gap below delivered IDs.
C3_Witness ==
    /\ mutex = 0
    /\ lastRes = "nil"
    /\ lost = {}
    /\ BeginEventID > startID
    /\ \E a \in EventIDs : a > BeginEventID /\ Count(a) = 1

\* C4 (fn error): the iteration in which fn returns an error returns that
\* error and leaves the ranges as they were before the event; an event for
\* which fn failed and which has not been delivered since is returned again
\* by the reader of every later call.
C4_FnErrorKeepsEvent ==
    /\ stepInfo.kind = "fnerror" => (ranges = stepInfo.before /\ lastRes = "fn")
    /\ \A a \in failed : Count(a) = 0 => InRanges(ranges, a)
    /\ \A c \in Callers :
         (cpc[c] = "loop" /\ mutex = c) =>
             \A a \in failed : Count(a) = 0 => a \in SeqRange(cevents[c])

\* An event for which fn failed in an earlier call has now been delivered.
C4_Witness ==
    /\ stepInfo.kind = "deliver"
    /\ stepInfo.id \in failed
    /\ Count(stepInfo.id) = 1

(***************************************************************************)
(* Properties of the cached store.                                         *)
(***************************************************************************)
NoOpenWriter == \A w \in Writers : ~wtx[w].open

\* Every writer transaction has ended and the initialised replica has run
\* SyncTx since the last commit.
Settled == mInit /\ mFresh /\ NoOpenWriter

\* C10 as stated: once the writers have committed and the replica has synced,
\* the mirror equals the object table.
C10_ConvergenceAsStated == Settled => mirror = rows

\* C10 (convergence), amended: once the writers have committed and the
\* initialised replica has synced, the mirror holds exactly the rows of the
\* object table with equal values, provided no event that committed lay in a
\* range the consumer had given up (skipped by initEvents or trimmed by the
\* gap window) while it was not yet visible; and the mirror changes only in
\* InitTx and SyncTx, so commits are not shown before the next SyncTx.
C10_Convergence ==
    /\ (Settled /\ mLost \cap Visible(elog) = {}) => mirror = rows
    /\ mirror = mAtSync

\* A synced replica that applied an event below an ID it had applied in an
\* earlier SyncTx (the writers committed out of order), after creates, an
\* update and a delete, and that equals the table.
C10_Witness ==
    /\ Settled
    /\ mLost = {}
    /\ mirror = rows
    /\ \E o \in ObjIDs : rows[o] # 0
    /\ \E o \in ObjIDs : rows[o] = 0
    /\ mLate
    /\ \E e \in Visible(elog) : elog[e].type = UpdateEvent
    /\ \E e \in Visible(elog) : elog[e].type = DeleteEvent

\* C11 as stated: once the writers have committed and the replica has synced,
\* the events the mirror has observed, in the order it observed them, are the
\* events sorted by event ID.
C11_InOrderAsStated == Settled => (mOrdered /\ ~mLate)

\* C11 (order of application), amended: every SyncTx applies its events in
\* strictly increasing event ID order, what it has applied is no longer in the
\* ranges, and once the writers have committed and the replica has synced no
\* visible event is left in the ranges. Across calls the order is not by
\* event ID: an event that commits after a higher ID was applied is applied
\* by a later SyncTx.
C11_OrderWithinSync ==
    /\ mOrdered
    /\ mMax # 0 => ~InRanges(mRanges, mMax)
    /\ Settled => \A e \in Visible(elog) : ~InRanges(mRanges, e)

\* A synced replica that has applied, in a later SyncTx, an event below an ID
\* an earlier SyncTx applied, three events or more being visible.
C11_Witness ==
    /\ Settled
    /\ mLate
    /\ mOrdered
    /\ Cardinality(Visible(elog)) >= 3

\* The object table that results from applying the events evs in order.
RECURSIVE Replay(_, _, _)
Replay(log, evs, m) ==
    IF evs = <<>> THEN m ELSE Replay(log, Tail(evs), consumeEvent(m, log[Head(evs)]))

Appended == {e \in EventIDs : elog[e].st \in {"pending", "committed"}}

\* C12: a create, update or delete changes the row and appends exactly one
\* event of its kind in one transaction, and both commit or neither: the
\* committed rows are exactly what the committed events produce, every open
\* transaction that changed a row holds exactly one pending event of its kind
\* and object, and there is no pending event without such a transaction. An
\* update or delete that matches no row appends no event: every update or
\* delete event follows a committed create of its object, and none follows a
\* committed delete of it.
C12_RowAndEventTogether ==
    /\ rows = Replay(elog, SortedSeq(Visible(elog)), [o \in ObjIDs |-> 0])
    /\ \A w \in Writers : (wtx[w].open /\ wtx[w].eid # 0) =>
           elog[wtx[w].eid] = [st |-> "pending", type |-> wtx[w].type,
                               obj |-> wtx[w].obj, val |-> wtx[w].val]
    /\ \A e \in EventIDs : elog[e].st = "pending" =>
           Cardinality({w \in Writers : wtx[w].open /\ wtx[w].eid = e}) = 1
    /\ \A e \in Appended : elog[e].type \in {UpdateEvent, DeleteEvent} =>
           /\ \E c \in Visible(elog) : /\ c < e
                                        /\ elog[c].type = CreateEvent
                                        /\ elog[c].obj = elog[e].obj
           /\ ~\E d \in Visible(elog) : /\ d < e
                                         /\ elog[d].type = DeleteEvent
                                         /\ elog[d].obj = elog[e].obj

\* An update or delete has failed with no-such-row, a delete has committed,
\* a transaction has been rolled back and one is open.
C12_Witness ==
    /\ noRows
    /\ \E e \in Visible(elog) : elog[e].type = DeleteEvent
    /\ \E e \in EventIDs : elog[e].st = "aborted"
    /\ \E w \in Writers : wtx[w].open

(***************************************************************************)
(* Properties of the task queue.                                           *)
(***************************************************************************)
Holding(w) == wpc[w] \in {"popping", "judging", "final"}

C6_LeaseRecoveryAsStated ==
    lastPop.res = "norows" => lastPop.dbx = {}

\* C7: PopQueued returns a task only if the mirror it has just synced (and the
\* task table) shows it queued with a kind the filter accepts; the task it
\* returns and the row its transaction commits are running with expire_time
\* five seconds after the call; a call that returns no-such-row found no such
\* task in the mirror and leaves the task table and its event table untouched.
C7_PopQueuedContract ==
    /\ [](/\ lastPop.res = "task" =>
               /\ lastPop.id \in lastPop.mq
               /\ lastPop.id \in lastPop.dbq
               /\ lastPop.task = [status |-> Running, kind |-> JudgeSolutionTask,
                                  expire |-> LeaseSeconds]
               /\ lastPop.row = lastPop.task
          /\ lastPop.res = "norows" => lastPop.mq = {})
    /\ [][((lastPop' # lastPop \/ pm' # pm) /\ wpc' = wpc) => (trows' = trows /\ tlog' = tlog)]_vars

\* A call has returned a task while a queued task of a kind the filter
\* rejects stays in the table.
C7_Witness ==
    /\ lastPop.res = "task"
    /\ trows[lastPop.id].status = Running
    /\ \E t \in TaskIDs : trows[t].status = Queued /\ ~isSupportedTask(trows[t].kind)

\* C8, as stated: when several queued tasks pass the filter, PopQueued returns
\* the one with the smallest id.
C8_SmallestIdAsStated ==
    lastPop.res = "task" => lastPop.id = MinOf(lastPop.mq)

AllowedTransitions ==
    {<<NoTask.status, Queued>>, <<Queued, Running>>, <<Running, Succeeded>>,
     <<Running, Failed>>, <<Running, Queued>>}

C13_LeaseLostCancelsAsStated ==
    \A w \in Invokers : wpc[w] = "judging" => hb[w]

C15_PanicRecordsFailedAsStated ==
    [][\A w \in Invokers :
          (/\ wpc[w] = "judging"
           /\ wpc'[w] = "dead"
           /\ \A v \in Invokers \ {w} : wpc'[v] = wpc[v]) =>
              trows'[wtask[w].id].status = Failed]_vars

(***************************************************************************)
(* Properties of the judging of a solution.                                *)
(***************************************************************************)
\* C16, as stated: when the compiler has failed, the report has verdict
\* compilation_error and no test report, and once that report is stored on
\* the solution the judging has returned nil, so that the task ends succeeded
\* and not failed.
C16_CompileErrorSucceedsAsStated ==
    (jpc = "returned" /\ compiled = "failed") =>
        /\ report.verdict = CompilationError
        /\ report.tests = << >>
        /\ solReport = report => jret = "nil"

\* The tests of a package in the order of the package: test set by test
\* set, and within a test set by number.
RECURSIVE TestOrder(_)
TestOrder(sets) ==
    IF sets = << >> THEN << >>
    ELSE LET n == Len(sets)
         IN  TestOrder(SubSeq(sets, 1, n - 1)) \o [i \in 1..sets[n] |-> <<n, i>>]

\* The tests that the test reports of a report are about, in report order.
TestsOf(rep) == [k \in 1..Len(rep.tests) |-> rep.tests[k].test]

\* C17: once the compiler succeeded and the package was parsed, the test loop
\* has appended exactly one test report for each test it has passed, in the
\* order of the package, and the loop variables stand at the next test; the
\* loop is left only by the return of nil, with one test report for every
\* test of every test set, whatever the verdicts of the tests.
C17_OneReportPerTest ==
    /\ [](jpc = "testing" =>
            LET order == TestOrder(pkgSets)
                n == Len(report.tests)
            IN  /\ jret = "none"
                /\ n <= Len(order)
                /\ TestsOf(report) = SubSeq(order, 1, n)
                /\ jpos = (IF n < Len(order) THEN order[n + 1] ELSE PastTests(pkgSets)))
    /\ [][(jpc = "testing" /\ jpc' # "testing") =>
            /\ jpc' = "returned"
            /\ jret' = "nil"
            /\ TestsOf(report') = TestOrder(pkgSets)
            /\ \A k \in 1..Len(report.tests) : report'.tests[k] = report.tests[k]]_vars

\* A judging of a package of two test sets has returned nil with two test
\* reports, the first of a run killed for its time and the second of a run
\* with a wrong answer.
C17_Witness ==
    /\ jpc = "returned"
    /\ jret = "nil"
    /\ pkgSets = <<1, 1>>
    /\ Len(report.tests) = 2
    /\ report.tests[1].verdict = TimeLimitExceeded
    /\ report.tests[2].verdict = WrongAnswer

\* C18, as stated: the worker writes the report of a solution only when the
\* report stored on the solution is null, so a report that is stored changes
\* only by being set to null by a rejudge request.
C18_ReportWrittenOnceAsStated ==
    [][(solReport # NullReport /\ solReport' # solReport) => solReport' = NullReport]_vars

\* C19, as stated, in part: the test report of a run that the sandbox killed
\* for its memory has verdict memory_limit_exceeded.
C19_MemoryKillClassifiedAsStated ==
    \A k \in 1..Len(report.tests) :
        report.tests[k].sandbox = "memkill" => report.tests[k].verdict = MemoryLimitExceeded

\* The verdicts a test can have besides accepted, from most to least severe.
Severity == <<CompilationError, RuntimeError, TimeLimitExceeded, MemoryLimitExceeded, WrongAnswer, Rejected>>

\* How many of the tests have verdict v.
VerdictCount(tests, v) == Cardinality({k \in 1..Len(tests) : tests[k].verdict = v})

\* The verdict that is most common among the tests that are not accepted,
\* the most severe one among the most common.
MostCommonVerdict(tests) ==
    LET best == CHOOSE i \in 1..Len(Severity) :
                    /\ \A j \in 1..Len(Severity) :
                          VerdictCount(tests, Severity[j]) <= VerdictCount(tests, Severity[i])
                    /\ \A j \in 1..(i - 1) :
                          VerdictCount(tests, Severity[j]) < VerdictCount(tests, Severity[i])
    IN  Severity[best]

\* The overall verdict as the specification aggregates it.
StatedVerdict(tests) ==
    LET acc == VerdictCount(tests, Accepted)
    IN  IF acc = Len(tests) THEN Accepted
        ELSE IF acc >= 1 THEN PartiallyAccepted
        ELSE MostCommonVerdict(tests)

\* C20, as stated: a judging that ran the tests of the package ends with the
\* overall verdict accepted when all tests are accepted, partially_accepted
\* when some but not all are, and otherwise the most common verdict of the
\* tests, the most severe among equally common ones.
C20_OverallVerdictAsStated ==
    (jpc = "returned" /\ jret = "nil" /\ Len(report.tests) > 0) =>
        report.verdict = StatedVerdict(report.tests)

(***************************************************************************)
(* Shape of the range list of the consumer.                                *)
(***************************************************************************)
\* The ranges of a list that hold at least one ID, in list order.
RECURSIVE Holds(_)
Holds(rs) ==
    IF rs = << >> THEN << >>
    ELSE (IF Head(rs).Begin = Head(rs).End THEN << >> ELSE <<Head(rs)>>) \o Holds(Tail(rs))

\* C30: right after a ConsumeEvents call returned nil the range list is not
\* empty, has no empty range, has every range but the last bounded and ending
\* at or before the Begin of the next one (so it is sorted by Begin and its
\* ranges are pairwise disjoint), ends with the unbounded range and has at
\* most eventGapSkipWindow entries; it is the tail of the ranges the call
\* left non-empty, so the ranges dropped are those with the smallest IDs.
C30_RangesWellFormed ==
    stepInfo.kind = "end" =>
        LET n == Len(ranges)
            had == Holds(stepInfo.before)
        IN  /\ n >= 1
            /\ n <= GapWindow
            /\ \A k \in 1..n : ranges[k].Begin # ranges[k].End
            /\ ranges[n].End = 0
            /\ \A k \in 1..(n - 1) :
                 /\ ranges[k].End # 0
                 /\ ranges[k].Begin < ranges[k].End
                 /\ ranges[k].End <= ranges[k + 1].Begin
            /\ n = (IF Len(had) > GapWindow THEN GapWindow ELSE Len(had))
            /\ ranges = SubSeq(had, Len(had) - n + 1, Len(had))

\* A call has returned nil after leaving more non-empty ranges than the
\* window allows, so that the list was trimmed.
C30_Witness ==
    /\ stepInfo.kind = "end"
    /\ Len(Holds(stepInfo.before)) > GapWindow
    /\ Len(ranges) = GapWindow
    /\ lost # {}

(***************************************************************************)
(* The index of the task store.                                            *)
(***************************************************************************)
\* C28: in the mirror of every process, whatever task events it has applied,
\* byStatus[s] contains id exactly when the mirror holds task id with status
\* s, and FindByStatus(s) returns exactly the mirrored tasks of status s.
C28_TaskIndexInvariant ==
    \A p \in Procs : \A s \in TaskStatuses :
        /\ \A id \in TaskIDs :
             id \in pm[p].byStatus[s] <=> (pm[p].tasks[id] # NoTask /\ pm[p].tasks[id].status = s)
        /\ FindByStatus(pm[p], s) = {id \in TaskIDs : pm[p].tasks[id].status = s}

\* A mirror has applied the create event of two tasks and two update events
\* of one of them: it holds a task that ended and a task that has not.
C28_Witness ==
    \E p \in Procs : \E t, u \in TaskIDs :
        /\ pm[p].tasks[t].status \in {Succeeded, Failed}
        /\ pm[p].tasks[u].status \in {Queued, Running}
        /\ t \in pm[p].byStatus[pm[p].tasks[t].status]

(***************************************************************************)
(* Properties of the session store.                                        *)
(***************************************************************************)
\* C29, as stated: once a delete event has been applied, the id of the
\* deleted object is in no index entry of the store, so an id listed under
\* an account in byAccount is the id of a session the mirror holds.
C29_DeleteClearsIndexAsStated ==
    \A id \in SessionIDs : \A k \in AccountKeys :
        id \in byAccount[k] => sessions[id] # 0

(***************************************************************************)
(* Properties of the comparator.                                           *)
(***************************************************************************)
\* The boolean compareFiles returns for two readable files.
Same(x, y) == compareFiles(x, y).ok

\* The files a third file can be, within the bytes of the model.
Thirds == Files(MaxFileBytes - Len(outFile) - Len(ansFile))

\* C21: the comparator is reflexive, symmetric and transitive on the files
\* of the model; a result it returned still is the result for the two files
\* after any number of insertions and removals of newline, carriage return,
\* tab and space in either file, and no such edit changes the result.
C21_ComparatorEquivalence ==
    /\ [](/\ Same(outFile, outFile) /\ Same(ansFile, ansFile)
          /\ Same(outFile, ansFile) = Same(ansFile, outFile)
          /\ \A z \in Thirds : (Same(outFile, ansFile) /\ Same(ansFile, z)) => Same(outFile, z)
          /\ \A z \in Thirds : (Same(outFile, z) /\ Same(z, ansFile)) => Same(outFile, ansFile)
          /\ cmpRes \in {"ok", "differ"} => (cmpRes = "ok") = Same(outFile, ansFile))
    /\ [][Same(outFile', ansFile') = Same(outFile, ansFile)]_vars

\* Two files that differ as byte strings were found equal, and whitespace has
\* been edited since; both hold a kept byte and whitespace.
C21_Witness ==
    /\ cmpRes = "ok"
    /\ cmpEdited
    /\ outFile # ansFile
    /\ \E p \in 1..Len(outFile) : outFile[p] \notin Whitespace
    /\ \E p \in 1..Len(outFile) : outFile[p] \in Whitespace
    /\ ansFile # << >>

(***************************************************************************)
(* Properties of the lookups of the cached stores.                         *)
(***************************************************************************)
\* C22, as stated: whatever callers do to the objects they were given, the
\* stores keep returning what they loaded: the Config bytes of every cached
\* compiler and the Value of every cached setting are as loaded.
C22_LookupsReturnCopiesAsStated ==
    /\ \A id \in CompilerIDs : heap[compilers[id]] = loadedCfg[id]
    /\ \A id \in SettingIDs : settings[id] = loadedVal[id]

(***************************************************************************)
(* Properties of the scratch directory.                                    *)
(***************************************************************************)
\* C23: the scratch directory of a judge call is removed on every exit path
\* of the call: whenever the worker is between calls (the call returned nil,
\* returned an error, or panicked and its deferred calls have run) no scratch
\* directory exists, and a directory exists only while the call that made it
\* still has its os.RemoveAll deferred.
C23_ScratchDirRemoved ==
    /\ spc \in {"idle", "returned"} => dirs = {}
    /\ \A d \in dirs :
         /\ d = tempDir
         /\ \E k \in 1..Len(deferred) : deferred[k] = "RemoveAll"

\* C23 witness: the worker is between calls after calls that had made their
\* directory ended in each of the three ways, the last of them by a panic.
C23_Witness ==
    /\ spc = "returned"
    /\ exits = ExitKinds
    /\ sexit = "panic"
    /\ tempDir # 0

(***************************************************************************)
(* Properties of the sandbox runner.                                       *)
(***************************************************************************)
SetMax(S) == CHOOSE x \in S : \A y \in S : y <= x

\* The step of main sent one more kill, for the reason why.
KillSent(why) ==
    /\ Len(iterKills') = Len(iterKills) + 1
    /\ iterKills'[Len(iterKills')].why = why

\* C24: the monitor loop. In every iteration in which waitpid found the child
\* still running and the elapsed time is over the time limit, SIGKILL is sent
\* (and in no other iteration for that reason); memory, and the memory of the
\* report, is the maximum of the memory.current samples of the loop (0 when
\* all were 0); SIGKILL is sent in the iteration in which that maximum gets
\* over the memory limit (and for that reason only then); a kill sent to a
\* living child is pending until the child is dead, and a kill that fails with
\* ESRCH, which happens only for a reaped child, does not end the runner.
C24_MonitorLoop ==
    /\ [](/\ memory = SetMax(samples \cup {0})
          /\ reportFile # NoSandboxReport => reportFile.memory = SetMax(samples \cup {0})
          /\ memory > MemoryLimit => \E k \in sent : k.why = "memory"
          /\ pendingKill => child \in {"running", "stopped"} /\ sent # {})
    /\ [][/\ (mpc = "time" /\ mpc' # mpc) =>
                (KillSent("time") <=> (result = 0 /\ elapsed > TimeLimit))
          /\ (mpc = "time" /\ mpc' # mpc /\ ~KillSent("time")) => iterKills' = iterKills
          /\ (mpc = "sample" /\ mpc' \in {"wait", "after"}) =>
                /\ KillSent("memory") <=> (memory' > memory /\ memory' > MemoryLimit)
                /\ ~KillSent("memory") => iterKills' = iterKills
          /\ \A why \in {"time", "memory"} :
                KillSent(why) =>
                   LET k == iterKills'[Len(iterKills')]
                   IN  /\ mpc' # "failed"
                       /\ k.errno = "ESRCH" <=> child = "reaped"
                       /\ k.errno = "none" /\ child # "zombie" => pendingKill'
         ]_vars

\* C24 witness: the report is written after a run in which the child was
\* killed for the time limit, a later sample got over the memory limit and
\* the kill for it failed with ESRCH.
C24_Witness ==
    /\ reportFile # NoSandboxReport
    /\ reportFile.memory > MemoryLimit
    /\ reportFile.time > TimeLimit
    /\ sent = {[why |-> "time", errno |-> "none"], [why |-> "memory", errno |-> "ESRCH"]}
    /\ Cardinality(samples) >= 2

\* C25: main leaves the monitor loop and writes its report only after the
\* child has terminated, and exit_code is the exit status of a child that
\* exited normally and -1 otherwise.
C25_ReportAfterTerminationAsStated ==
    /\ mpc \in {"after", "reported"} => child = "reaped"
    /\ reportFile # NoSandboxReport =>
          reportFile.exit_code = (IF cstatus.kind = "exited" THEN cstatus.code ELSE -1)

(***************************************************************************)
(* Properties of the role resolver.                                        *)
(***************************************************************************)
\* The roles reachable from the set S along the edges g, S included.
RECURSIVE Closure(_, _)
Closure(S, g) ==
    LET T == S \cup {c \in RoleIDs : \E r \in S : <<r, c>> \in g}
    IN  IF T = S THEN S ELSE Closure(T, g)

\* How often r occurs in the list ids.
Occurrences(ids, r) == Cardinality({k \in 1..Len(ids) : ids[k] = r})

C27_StartWaitsStopJoins ==
    /\ apc \in {"started", "failed", "stopping", "stopped"} =>
          /\ \A g \in Managers : initErr[g] # "none" /\ gpc[g] \in {"select", "done"}
          /\ received = Cardinality(Managers)
          /\ (apc = "failed") <=> (\E g \in Managers : initErr[g] = "error")
          /\ (apc = "failed") <=> (startErr = "error")
    /\ apc \in {"failed", "stopped"} =>
          /\ \A g \in Managers : gpc[g] = "done"
          /\ waiter = 0

\* C27 witness: Start has returned an error after its Stop, one Init had
\* failed, and a goroutine had synced its store before it returned.
C27_Witness ==
    /\ apc = "failed"
    /\ Cardinality({g \in Managers : initErr[g] = "error"}) = 1
    /\ \E g \in Managers : synced[g] /\ initErr[g] = "nil"
    /\ \A g \in Managers : gpc[g] = "done"

(***************************************************************************)
(* Further properties of the task queue.                                   *)
(***************************************************************************)
\* C31 as stated: a popped task whose judging returned is not left in status
\* running: when runDaemonTick returns after onTask has returned, which is the
\* last point at which the worker writes the task, the row of the task has
\* status succeeded or failed.
C31_ReturnedTaskFinishedAsStated ==
    [][\A w \in Invokers :
          (wpc[w] = "final" /\ wpc'[w] = "idle") =>
              trows'[wtask[w].id].status \in {Succeeded, Failed}]_vars

(***************************************************************************)
(* Further properties of judging.                                          *)
(***************************************************************************)
\* C32 as stated: at any time at most one judge task of the solution is
\* queued or running, a rejudge request made while one exists included.
C32_OneJudgeTaskPerSolutionAsStated ==
    pending + (IF jpc \in {"prepared", "compiled", "testing"} THEN 1 ELSE 0) <= 1

\* C33 as stated: every container created for compilation is destroyed on
\* every exit path of compileSolution: between calls no container exists.
C33_ContainerDestroyedAsStated == kpc \in {"idle", "returned"} => containers = {}

(***************************************************************************)
(* Properties of the start-up of the sandbox.                              *)
(***************************************************************************)
\* C34 as stated: the child has done no set-up step (and no exec) unless the
\* parent has written uid_map, setgroups and gid_map, has set up the cgroup
\* and has closed the init pipe; and the parent measures time only when the
\* child no longer holds the write end of the finalize pipe.
C34_StartupOrderAsStated ==
    /\ (cdone # << >> \/ epc \in {"closeFinal", "exec", "target"}) =>
          /\ pdone = ParentSteps
          /\ ppc \in {"waitReady", "timing"}
    /\ ppc = "timing" => "child" \notin finalWriters

(***************************************************************************)
(* Further properties of the base store.                                   *)
(***************************************************************************)
\* max(1, LastEventID - window), LastEventID being 0 for an empty table.
StatedBeginID(log) ==
    LET d == LastEventID(log) - InitWindow
    IN  IF d > 1 THEN d ELSE 1

\* C35: initEvents starts the consumer at max(1, LastEventID - window), and at
\* 1 when the event table is empty: in every state that is the ID initEvents
\* would choose, and the ranges InitTx leaves are those of a consumer created
\* at that ID that has consumed the visible events, so that no ID below it is
\* in the ranges.
C35_InitBeginID ==
    /\ [](InitBeginID(elog) = StatedBeginID(elog))
    /\ [][(~mInit /\ mInit') =>
            LET b == StatedBeginID(elog)
                c == NewEventConsumer(b)
            IN  /\ mRanges' = Skim(c, 0, LoadEvents(Visible(elog), c)).ranges
                /\ \A id \in 1..(b - 1) : ~InRanges(mRanges', id)
                /\ Visible(elog) = {} => mRanges' = NewEventConsumer(1)]_vars

\* C35 witness: InitTx has run on a table whose last event ID is above the
\* window, and event 1, which was not visible, was left out by the start ID.
C35_Witness ==
    /\ mInit
    /\ mMax = 0
    /\ LastEventID(elog) > InitWindow + 1
    /\ 1 \in mLost
    /\ ~InRanges(mRanges, 1)

(***************************************************************************)
(* Properties of the task object's accessors.                              *)
(***************************************************************************)
\* C36: SetState stores the serialised state in the State field and leaves
\* Config alone, and ScanState reads the State field: once a config has been
\* set the Config field holds its serialisation whatever was called since,
\* after SetState the State field holds the serialised state, ScanConfig
\* yields the last config set and ScanState the last state set.
C36_StateFieldHoldsStateAsStated ==
    /\ lastConfig # NoValue => taskConfig = Marshal(lastConfig)
    /\ lastState # NoValue => taskState = Marshal(lastState)
    /\ (tlast = "ScanConfig" /\ lastConfig # NoValue) => gotConfig = lastConfig
    /\ (tlast = "ScanState" /\ lastState # NoValue) => gotState = lastState

(***************************************************************************)
(* Properties of the change manager.                                       *)
(***************************************************************************)
\* C37: concurrent Sync and Change calls always complete: in no state does
\* Sync hold the manager's mutex while its query waits for the table lock and
\* a caller of Change hold the table lock while SyncTx waits for the mutex.
C37_NoLockOrderDeadlockAsStated ==
    ~ \E c \in Changers :
        /\ managerMutex = "sync"
        /\ syncPc = "locked"
        /\ tableLock = c
        /\ chPc[c] = "locked"

\* C38: a change whose transaction did not commit is not in the in-memory
\* state: every change_id that was applied is a committed row or the row of a
\* transaction that is still open, and lastChangeID is such a row or 0.
C38_UncommittedChangeNotAppliedAsStated ==
    LET inDatabase == changeTable \cup {txChange[c] : c \in Changers}
    IN  /\ \A i \in 1..Len(applied) : applied[i] \in inDatabase
        /\ lastChangeID \in inDatabase \cup {0}

\* C39: each change row is applied at most once and in increasing change_id
\* order, and lastChangeID never decreases: the change_id values of the
\* applyChange calls, each of which is assigned to lastChangeID, strictly
\* increase.
C39_AppliedOnceInOrderAsStated ==
    \A i, j \in 1..Len(applied) : i < j => applied[i] < applied[j]

(***************************************************************************)
(* Properties of the standings cache.                                      *)
(***************************************************************************)
\* The callers whose build for key k is running.
BuildsInFlight(k) == {d \in StandingsCallers : bsPc[d] = "building" /\ bsKey[d] = k}

\* C40: with the cache enabled at most one build per key runs at a time; a
\* caller that looks the key up while a build for it is in flight creates no
\* entry, waits for that build's entry and returns what that build stored;
\* and the mutex is held only between Lock and the Unlock of the path taken.
C40_OneBuildPerKey ==
    /\ [](\A k \in CacheKeys : Cardinality(BuildsInFlight(k)) <= 1)
    /\ [](\A c \in StandingsCallers : cacheMutex = c => bsPc[c] = "locked")
    /\ [](cacheMutex # 0 => cacheMutex \in StandingsCallers)
    /\ [][\A c \in StandingsCallers :
            /\ (bsPc[c] = "locked" /\ bsPc'[c] # "locked" /\ BuildsInFlight(bsKey[c]) # {}) =>
                  /\ bsPc'[c] = "waiting"
                  /\ cacheEntries' = cacheEntries
                  /\ \A d \in BuildsInFlight(bsKey[c]) : bsEntry'[c] = bsEntry[d]
                  /\ cacheMutex' = 0
            /\ (bsPc[c] = "locked" /\ bsPc'[c] # "locked") => cacheMutex' = 0
            /\ (bsPc[c] = "waiting" /\ bsPc'[c] = "idle") =>
                  /\ cacheEntries[bsEntry[c]].done
                  /\ bsResult'[c].standings = cacheEntries[bsEntry[c]].standings
                  /\ bsResult'[c].error = cacheEntries[bsEntry[c]].error
                  /\ bsResult'[c].standings \in {0, bsEntry[c]}]_vars

\* C40 witness: a caller that found a build in flight has returned that
\* build's standings, and the builder has returned the same.
C40_Witness ==
    \E c, d \in StandingsCallers :
        /\ c # d
        /\ bsHow[c] = "waited"
        /\ bsHow[d] = "built"
        /\ bsPc[c] = "idle"
        /\ bsEntry[c] = bsEntry[d]
        /\ bsResult[c] = bsResult[d]
        /\ bsResult[c].standings = bsEntry[c]
        /\ Len(cacheEntries) = 1

====
